---- MODULE Spec2Model ----
(***************************************************************************)
(* A model of the core of MagPySV: tools.calculate_sv,                     *)
(* tools.calculate_residuals, denoise.detect_outliers and                   *)
(* denoise.eigenvalue_analysis.  Every function is one call: the caller's  *)
(* objects live in heap, the arguments as passed in args, the locals of a  *)
(* call that takes several steps in frame, the result (or the exception)   *)
(* in ret.                                                                  *)
(*                                                                          *)
(* Numbers are exact: a float is an integer, or an integer over a stated   *)
(* denominator.  A missing sample (np.nan) is the value NaN, and every     *)
(* arithmetic operator propagates it as IEEE arithmetic does.              *)
(***************************************************************************)
EXTENDS Integers, Sequences, FiniteSets, TLC

VARIABLES pc, args, heap, frame, ret

vars == <<pc, args, heap, frame, ret>>

\* np.nan: outside the range of every number the model computes.
NaN == -999999999

IsNaN(x) == x = NaN

\* IEEE arithmetic on possibly missing numbers.
Sub(a, b) == IF IsNaN(a) \/ IsNaN(b) THEN NaN ELSE a - b
Add(a, b) == IF IsNaN(a) \/ IsNaN(b) THEN NaN ELSE a + b
Mul(a, b) == IF IsNaN(a) \/ IsNaN(b) THEN NaN ELSE a * b
Abs(a) == IF IsNaN(a) THEN NaN ELSE IF a < 0 THEN -a ELSE a

Range(s) == {s[i] : i \in DOMAIN s}
Min(a, b) == IF a < b THEN a ELSE b
Max(a, b) == IF a < b THEN b ELSE a

\* The result of a call that raised.
Raise(kind) == [raised |-> kind]
Raised(r) == "raised" \in DOMAIN r
Returned(r) == "value" \in DOMAIN r
None == [none |-> TRUE]

(***************************************************************************)
(* tools.calculate_sv                                                       *)
(***************************************************************************)

\* Bounds of the field series handed to calculate_sv.
MaxSamples == 4
MaxSpacing == 5
MaxSlope == 2

\* A month as the number of months since year 0.
MonthIndex(dte) == dte.y * 12 + (dte.m - 1)

\* dte - pd.tseries.offsets.DateOffset(months=k, day=1): k months back, the
\* year carried, the day set to 1.
DateOffsetSub(dte, k) ==
    LET total == MonthIndex(dte) - k
    IN  [y |-> total \div 12, m |-> (total % 12) + 1, d |-> 1]

\* dte.replace(day=dd)
ReplaceDay(dte, dd) == [dte EXCEPT !.d = dd]

\* A variant that shifts the month for even spacings only.
SvDateEvenOnly(dte, s) ==
    IF s % 2 = 1 THEN ReplaceDay(dte, 1)
    ELSE ReplaceDay(DateOffsetSub(dte, s \div 2), 15)

\* The date column of obs_sv, before the head is dropped: the month is moved
\* back by floor(mean_spacing / 2), the day is 1 for an odd spacing, else 15.
SvDate(dte, s) ==
    LET shifted == DateOffsetSub(dte, s \div 2)
    IN  IF s % 2 = 1 THEN ReplaceDay(shifted, 1) ELSE ReplaceDay(shifted, 15)

\* A variant that differences adjacent samples whatever the spacing.
DiffPeriodsOne(col, s) ==
    [t \in 1..Len(col) |-> IF t <= 1 THEN NaN ELSE Sub(col[t], col[t - 1])]

\* Series.diff(periods=s): NaN where there is no sample s rows earlier.
Diff(col, s) ==
    [t \in 1..Len(col) |-> IF t <= s THEN NaN ELSE Sub(col[t], col[t - s])]

\* scaling_factor * series, scaling_factor = 12 / mean_spacing: the value is
\* num / den, kept exact.
Scale(col, s) ==
    [t \in 1..Len(col) |->
        [num |-> Mul(12, col[t]), den |-> s]]

\* obs_sv.drop(obs_sv.head(s).index): the first s rows go.
DropHead(col, s) ==
    IF s >= Len(col) THEN <<>> ELSE SubSeq(col, s + 1, Len(col))

CalculateSv(obs_data, s) ==
    [date |-> DropHead([t \in 1..Len(obs_data.date) |-> SvDate(obs_data.date[t], s)], s),
     dx   |-> DropHead(Scale(Diff(obs_data.X, s), s), s),
     dy   |-> DropHead(Scale(Diff(obs_data.Y, s), s), s),
     dz   |-> DropHead(Scale(Diff(obs_data.Z, s), s), s)]

\* Equality of an exact value num/den with the rational p/q.
RatIs(v, p, q) ==
    IF IsNaN(v.num) THEN IsNaN(p) ELSE ~IsNaN(p) /\ v.num * q = p * v.den

\* The field series the model hands to calculate_sv: consecutive months from a
\* start date, X of constant slope (one sample perhaps missing), Y and Z other
\* series.
StartDates ==
    {[y |-> 1999, m |-> 1, d |-> 15], [y |-> 1999, m |-> 12, d |-> 1],
     [y |-> 2000, m |-> 2, d |-> 31]}

MonthsAfter(dte, k) ==
    LET total == MonthIndex(dte) + k
    IN  [y |-> total \div 12, m |-> (total % 12) + 1, d |-> dte.d]

FieldSeries ==
    {[date |-> [t \in 1..n |-> MonthsAfter(start, t - 1)],
      X |-> [t \in 1..n |-> IF t = gap THEN NaN ELSE 100 + r * t],
      Y |-> [t \in 1..n |-> t * t],
      Z |-> [t \in 1..n |-> IF t = gap + 1 THEN NaN ELSE 7 - 3 * t]] :
        n \in 1..MaxSamples, start \in StartDates, r \in 0..MaxSlope,
        gap \in 0..MaxSamples}

InitSv ==
    /\ pc = "calculate_sv"
    /\ \E f \in FieldSeries, s \in 1..MaxSpacing :
          args = [obs_data |-> f, mean_spacing |-> s]
    /\ heap = None
    /\ frame = None
    /\ ret = None

calculate_sv ==
    /\ pc = "calculate_sv"
    /\ ret' = [value |-> CalculateSv(args.obs_data, args.mean_spacing)]
    /\ pc' = "done"
    /\ UNCHANGED <<args, heap, frame>>

NextSv == calculate_sv

SpecSv == InitSv /\ [][NextSv]_vars

SvDone == pc = "done" /\ Returned(ret)
SvSamples == Len(args.obs_data.date)

\* The secular variation of one axis as the source defines it: for each row
\* k of the result, 12 / s times the sample s + k less the sample k.
SvOf(field, out, s) ==
    /\ Len(out) = Len(field) - s
    /\ \A k \in 1..Len(out) :
          RatIs(out[k], Mul(12, Sub(field[s + k], field[k])), s)

\* C5: for 1 <= s < N calculate_sv returns N - s rows, row k holding for
\* each axis 12 / s times the difference of the samples s apart (missing
\* when either sample is missing); a field of constant monthly change r
\* gives 12 * r whatever the spacing.
C5_ScaledDifferences ==
    (SvDone /\ args.mean_spacing < SvSamples) =>
        LET s == args.mean_spacing
            out == ret.value
        IN  /\ Len(out.date) = SvSamples - s
            /\ SvOf(args.obs_data.X, out.dx, s)
            /\ SvOf(args.obs_data.Y, out.dy, s)
            /\ SvOf(args.obs_data.Z, out.dz, s)
            /\ \A r \in 0..MaxSlope :
                  (\A t \in 1..(SvSamples - 1) :
                        /\ ~IsNaN(args.obs_data.X[t])
                        /\ ~IsNaN(args.obs_data.X[t + 1])
                        /\ args.obs_data.X[t + 1] - args.obs_data.X[t] = r)
                  => \A k \in 1..Len(out.dx) : RatIs(out.dx[k], 12 * r, 1)

\* A result of two rows or more for a spacing of two or more, on a field
\* whose X changes by a constant that is not 0 and whose Z has a gap.
C5_Witness ==
    /\ SvDone
    /\ args.mean_spacing >= 2
    /\ Len(ret.value.dx) >= 2
    /\ \A t \in 1..SvSamples : ~IsNaN(args.obs_data.X[t])
    /\ args.obs_data.X[2] - args.obs_data.X[1] = MaxSlope
    /\ \E k \in 1..Len(ret.value.dz) : IsNaN(ret.value.dz[k].num)
    /\ \E k \in 1..Len(ret.value.dz) : ~IsNaN(ret.value.dz[k].num)

\* C6, as stated: row k of the result is dated, for an even spacing s, s / 2
\* months before the later of its two samples, and for an odd spacing in the
\* month of the later sample.
C6_MidpointOrLaterMonth ==
    SvDone =>
        LET s == args.mean_spacing
        IN  \A k \in 1..Len(ret.value.date) :
                MonthIndex(ret.value.date[k]) =
                    IF s % 2 = 0
                    THEN MonthIndex(args.obs_data.date[s + k]) - (s \div 2)
                    ELSE MonthIndex(args.obs_data.date[s + k])

\* C6, as the code has it: row k of the result is dated floor(s / 2) months
\* before the later of its two samples, whatever the parity of s (for s = 1
\* in the month of the later sample); on day 15 for an even spacing, on day
\* 1 for an odd one.
C6_HalfSpacingBeforeLater ==
    SvDone =>
        LET s == args.mean_spacing
        IN  \A k \in 1..Len(ret.value.date) :
                /\ MonthIndex(ret.value.date[k]) =
                       MonthIndex(args.obs_data.date[s + k]) - (s \div 2)
                /\ ret.value.date[k].d = IF s % 2 = 0 THEN 15 ELSE 1

\* A result for an odd spacing above 1: its date is in an earlier month than
\* the later sample.
C6_Witness ==
    /\ SvDone
    /\ args.mean_spacing % 2 = 1
    /\ args.mean_spacing > 1
    /\ Len(ret.value.date) >= 1
    /\ MonthIndex(ret.value.date[1])
          < MonthIndex(args.obs_data.date[args.mean_spacing + 1])

\* C11, as stated: a call with mean_spacing at or above the number of
\* samples ends in an error and returns no table.
C11_SpacingBeyondSeriesRaises ==
    (pc = "done" /\ args.mean_spacing >= SvSamples) => Raised(ret)

(***************************************************************************)
(* tools.calculate_residuals                                                *)
(***************************************************************************)

\* Bounds of the tables handed to calculate_residuals.
MaxDate == 3
MaxCols == 2

Labels == <<"X_aaa", "Y_aaa", "Z_aaa", "X_bbb", "Y_bbb", "Z_bbb">>

\* The dates of a set, in increasing order.
RECURSIVE SortedSeq(_)
SortedSeq(S) ==
    IF S = {} THEN <<>>
    ELSE LET m == CHOOSE x \in S : \A y \in S : x <= y
         IN  <<m>> \o SortedSeq(S \ {m})

\* A table with a date column: one row per date of D, n value columns, the
\* value of date d and column c being base(d, c) unless <<d, c>> is in miss.
Table(D, n, miss, a, b) ==
    LET ds == SortedSeq(D)
    IN  [date    |-> ds,
         columns |-> SubSeq(Labels, 1, n),
         values  |-> [i \in 1..Len(ds) |->
                        [c \in 1..n |->
                            IF <<ds[i], c>> \in miss THEN NaN
                            ELSE a * ds[i] * ds[i] + b * c]]]

Cells(D, n) == D \X (1..n)

\* No cell, or one.
AtMostOne(S) == {{}} \cup {{x} : x \in S}

ObsTables ==
    {Table(D, n, miss, 10, 1) :
        D \in SUBSET (1..MaxDate), n \in 1..MaxCols,
        miss \in AtMostOne(Cells(1..MaxDate, MaxCols))}

ModelTables ==
    {Table(D, n, miss, 3, 2) :
        D \in SUBSET (1..MaxDate), n \in 1..MaxCols,
        miss \in AtMostOne(Cells(1..MaxDate, MaxCols))}

NRows(t) == Len(t.values)
NCols(t) == Len(t.columns)

\* model_data[model_data['date'].isin(dates)]: a new table with the rows of
\* model_data whose date is one of dates, in model_data's order.
RowsIsin(t, dates) ==
    LET keep == {i \in 1..NRows(t) : t.date[i] \in Range(dates)}
        idx == SortedSeq(keep)
    IN  [date    |-> [k \in 1..Len(idx) |-> t.date[idx[k]]],
         columns |-> t.columns,
         values  |-> [k \in 1..Len(idx) |-> t.values[idx[k]]]]

\* table.drop(table.columns[[0]], axis=1, inplace=True) on a table whose first
\* column is the date: the value columns stay.
DropDate(t) == [columns |-> t.columns, values |-> t.values]

\* table.insert(0, 'date', dates)
InsertDate(t, dates) ==
    [date |-> dates, columns |-> t.columns, values |-> t.values]

\* numpy broadcasting of one axis: the common length, or -1 when the lengths
\* are incompatible.
BroadcastLen(m, n) ==
    IF m = n THEN m ELSE IF m = 1 THEN n ELSE IF n = 1 THEN m ELSE -1

\* a.values - b.values for arrays of ra x ca and rb x cb numbers.
ArraySub(a, ra, ca, b, rb, cb) ==
    LET r == BroadcastLen(ra, rb)
        c == BroadcastLen(ca, cb)
    IN  [i \in 1..r |->
            [j \in 1..c |->
                Sub(a[IF ra = 1 THEN 1 ELSE i][IF ca = 1 THEN 1 ELSE j],
                    b[IF rb = 1 THEN 1 ELSE i][IF cb = 1 THEN 1 ELSE j])]]

\* obs_data.values - model_data.values
ResidualValues(obs, model) ==
    ArraySub(obs.values, NRows(obs), NCols(obs),
             model.values, NRows(model), NCols(model))

\* Whether numpy can broadcast the two arrays, and pandas label the result
\* with the columns of obs_data.
ShapesBroadcast(obs, model) ==
    /\ BroadcastLen(NRows(obs), NRows(model)) >= 0
    /\ BroadcastLen(NCols(obs), NCols(model)) >= 0
LabelsFit(obs, model) ==
    BroadcastLen(NCols(obs), NCols(model)) = NCols(obs)

InitResiduals ==
    /\ pc = "calculate_residuals"
    /\ \E o \in ObsTables, m \in ModelTables :
          /\ args = [obs_data |-> o, model_data |-> m]
          /\ heap = [obs_data |-> o, model_data |-> m]
    /\ frame = None
    /\ ret = None

\* The whole call.  An exception leaves obs_data without its date column.
calculate_residuals ==
    /\ pc = "calculate_residuals"
    /\ LET dates    == heap.obs_data.date
           filtered == RowsIsin(heap.model_data, dates)
           obs      == DropDate(heap.obs_data)
           model    == DropDate(filtered)
       IN  IF ~ShapesBroadcast(obs, model)
           THEN /\ ret' = Raise("ValueError")
                /\ heap' = [heap EXCEPT !.obs_data = obs]
           ELSE IF ~LabelsFit(obs, model)
           THEN /\ ret' = Raise("ValueError")
                /\ heap' = [heap EXCEPT !.obs_data = obs]
           ELSE /\ ret' = [value |-> [columns |-> obs.columns,
                                      values  |-> ResidualValues(obs, model)]]
                /\ heap' = [heap EXCEPT !.obs_data = InsertDate(obs, dates)]
    /\ pc' = "done"
    /\ UNCHANGED <<args, frame>>

NextResiduals == calculate_residuals

SpecResiduals == InitResiduals /\ [][NextResiduals]_vars

\* The dates present in both tables handed over, in increasing order.
CommonDates ==
    SortedSeq(Range(args.obs_data.date) \cap Range(args.model_data.date))

\* The entry of table t at date d and column c.
Entry(t, d, c) ==
    t.values[CHOOSE i \in 1..NRows(t) : t.date[i] = d][c]

SameColumns == args.obs_data.columns = args.model_data.columns

\* C3, as stated: the result has one row for each date present in both
\* tables, and its entry at such a date d and column c is obs_data[d, c] -
\* model_data[d, c], missing exactly when either operand is.
C3_InnerJoinOnDate ==
    (pc = "done" /\ SameColumns) =>
        /\ Returned(ret)
        /\ Len(ret.value.values) = Len(CommonDates)
        /\ \A k \in 1..Len(CommonDates), c \in 1..NCols(args.obs_data) :
              ret.value.values[k][c] =
                  Sub(Entry(args.obs_data, CommonDates[k], c),
                      Entry(args.model_data, CommonDates[k], c))

\* C4, as stated: adding model_data back to the result gives obs_data on
\* every common date, every entry of obs_data that is not missing being
\* recovered.
C4_RoundTrip ==
    (pc = "done" /\ SameColumns) =>
        /\ Returned(ret)
        /\ Len(ret.value.values) = Len(CommonDates)
        /\ \A k \in 1..Len(CommonDates), c \in 1..NCols(args.obs_data) :
              ~IsNaN(Entry(args.obs_data, CommonDates[k], c)) =>
                  Add(ret.value.values[k][c],
                      Entry(args.model_data, CommonDates[k], c))
                    = Entry(args.obs_data, CommonDates[k], c)

\* C12, as stated: a call with tables of different numbers of value columns
\* ends in an error and returns no table.
C12_ColumnCountMismatchRaises ==
    (pc = "done" /\ NCols(args.obs_data) # NCols(args.model_data)) =>
        Raised(ret)

\* C13, as stated: a call with tables that share no date ends in an error,
\* whatever the number of rows of obs_data, and returns no table.
C13_NoCommonDateRaises ==
    (/\ pc = "done"
     /\ NRows(args.obs_data) >= 1
     /\ NRows(args.model_data) >= 1
     /\ CommonDates = <<>>) => Raised(ret)

\* C17, as stated: after the call, returned or raised, the caller's obs_data
\* and model_data are as they were handed over.
C17_CallerTablesUntouched ==
    pc = "done" =>
        /\ heap.obs_data = args.obs_data
        /\ heap.model_data = args.model_data

(***************************************************************************)
(* denoise.detect_outliers                                                  *)
(*                                                                          *)
(* The samples are integers, so a median over an even window is a half     *)
(* integer: the running median is kept doubled, the absolute deviation     *)
(* doubled, and the median absolute deviation four-fold.                    *)
(***************************************************************************)

\* Bounds of the series, the window and the threshold handed over.
MaxLength == 5
MaxWindow == 3
MaxThreshold == 2

\* The values a sample takes.
Levels == {0, 1, 4}

\* Series.ffill(limit=limit): a missing sample takes the last valid one, if
\* that is at most limit rows back.
Ffill(s, limit) ==
    [i \in 1..Len(s) |->
        IF ~IsNaN(s[i]) THEN s[i]
        ELSE LET before == {j \in 1..(i - 1) : ~IsNaN(s[j])}
             IN  IF before = {} THEN NaN
                 ELSE LET j == CHOOSE k \in before : \A l \in before : l <= k
                      IN  IF i - j <= limit THEN s[j] ELSE NaN]

\* Series.bfill(): a missing sample takes the next valid one.
Bfill(s) ==
    [i \in 1..Len(s) |->
        IF ~IsNaN(s[i]) THEN s[i]
        ELSE LET after == {j \in (i + 1)..Len(s) : ~IsNaN(s[j])}
             IN  IF after = {} THEN NaN
                 ELSE s[CHOOSE k \in after : \A l \in after : k <= l]]

\* A variant that stops at half the window.
FillLimitHalf(window_length) == window_length \div 2

\* int(window_length / 2 + 1)
FillLimit(window_length) == (window_length \div 2) + 1

\* signal_temp.ffill(limit=int(window_length / 2 + 1)).bfill()
FilledCopy(signal, window_length) ==
    Bfill(Ffill(signal, FillLimit(window_length)))

\* The numbers of a sequence in increasing order.
RECURSIVE Sorted(_)
Sorted(s) ==
    IF s = <<>> THEN <<>>
    ELSE LET k == CHOOSE i \in DOMAIN s : \A j \in DOMAIN s : s[i] <= s[j]
         IN  <<s[k]>> \o Sorted(SubSeq(s, 1, k - 1) \o SubSeq(s, k + 1, Len(s)))

\* Twice the median of a sequence of numbers.
TwiceMedian(s) ==
    LET q == Sorted(s)
        n == Len(s)
    IN  IF n % 2 = 1 THEN 2 * q[(n + 1) \div 2]
        ELSE q[n \div 2] + q[(n \div 2) + 1]

\* series.rolling(window=w, center=True).median(), doubled: the window of row
\* i ends (w - 1) // 2 rows after it; a window that leaves the series or
\* holds a missing sample gives NaN.
RollingMedian(s, w) ==
    [i \in 1..Len(s) |->
        LET hi == i + ((w - 1) \div 2)
            lo == hi - w + 1
        IN  IF lo < 1 \/ hi > Len(s) THEN NaN
            ELSE IF \E j \in lo..hi : IsNaN(s[j]) THEN NaN
            ELSE TwiceMedian(SubSeq(s, lo, hi))]

\* .rolling(...).median().bfill().ffill(), doubled
RunningMedian(s, w) == Ffill(Bfill(RollingMedian(s, w)), Len(s))

\* (signal_temp - running_median).abs(), doubled
AbsDiff(signal_temp, running_median) ==
    [i \in 1..Len(signal_temp) |->
        Abs(Sub(Mul(2, signal_temp[i]), running_median[i]))]

\* diff / med_abs_deviation as num / den: diff is half the doubled
\* deviation, med_abs_deviation a quarter of the four-fold one.
ModifiedZScore(diff, med_abs_deviation) ==
    [i \in 1..Len(diff) |->
        [num |-> Mul(2, diff[i]), den |-> med_abs_deviation[i]]]

\* A variant that also takes a score equal to the threshold.
ExceedsOrEquals(z, threshold) ==
    /\ ~IsNaN(z.num) /\ ~IsNaN(z.den)
    /\ IF z.den = 0 THEN z.num > 0 ELSE z.num >= threshold * z.den

\* A variant that takes no score over a deviation of zero.
ExceedsFiniteOnly(z, threshold) ==
    /\ ~IsNaN(z.num) /\ ~IsNaN(z.den)
    /\ z.den # 0
    /\ z.num > threshold * z.den

\* modified_z_score > threshold, in IEEE arithmetic: 0 / 0 and every NaN
\* compare false, a positive number over 0 is inf.
Exceeds(z, threshold) ==
    /\ ~IsNaN(z.num) /\ ~IsNaN(z.den)
    /\ IF z.den = 0 THEN z.num > 0 ELSE z.num > threshold * z.den

\* A variant that hands back the filled copy.
RemoveOutliersFromCopy(signal, signal_temp, z, threshold) ==
    [i \in 1..Len(signal) |->
        IF Exceeds(z[i], threshold) THEN NaN ELSE signal_temp[i]]

\* signal.iloc[idx] = np.nan for idx the rows with modified_z_score >
\* threshold.
RemoveOutliers(signal, signal_temp, z, threshold) ==
    [i \in 1..Len(signal) |->
        IF Exceeds(z[i], threshold) THEN NaN ELSE signal[i]]

Signals == UNION {[1..n -> Levels \cup {NaN}] : n \in 0..MaxLength}

\* A threshold far above every score that is finite.
LargeThreshold == 1000

InitOutliers ==
    /\ pc = "detect_outliers"
    /\ \E sig \in Signals, w \in 1..MaxWindow,
          th \in (1..MaxThreshold) \cup {LargeThreshold} :
          /\ args = [signal |-> sig, window_length |-> w, threshold |-> th]
          /\ heap = [signal |-> sig]
    /\ frame = None
    /\ ret = None

\* The whole call (plot_fig False).  The outliers are removed from the
\* series object handed in, and a float copy of it is returned.
detect_outliers ==
    /\ pc = "detect_outliers"
    /\ \E signal_temp \in {FilledCopy(heap.signal, args.window_length)} :
       \E running_median \in {RunningMedian(signal_temp, args.window_length)} :
       \E diff \in {AbsDiff(signal_temp, running_median)} :
       \E med_abs_deviation \in {RunningMedian(diff, args.window_length)} :
       \E z \in {ModifiedZScore(diff, med_abs_deviation)} :
       \E out \in {RemoveOutliers(heap.signal, signal_temp, z, args.threshold)} :
          /\ frame' = [signal_temp |-> signal_temp,
                       running_median |-> running_median,
                       diff |-> diff,
                       med_abs_deviation |-> med_abs_deviation,
                       modified_z_score |-> z]
          /\ heap' = [heap EXCEPT !.signal = out]
          /\ ret' = [value |-> out]
    /\ pc' = "done"
    /\ UNCHANGED args

NextOutliers == detect_outliers

SpecOutliers == InitOutliers /\ [][NextOutliers]_vars

\* C16, as stated: after the call the series object the caller passed in
\* holds the values it held before.
C16_CallerSeriesUntouched ==
    pc = "done" => heap.signal = args.signal

\* A second call, on the series the first one returned, with the same
\* window_length and threshold.  The series the caller passed to the first
\* call stays as that call left it.
detect_outliers_again ==
    /\ pc = "done"
    /\ \E signal_temp \in {FilledCopy(ret.value, args.window_length)} :
       \E running_median \in {RunningMedian(signal_temp, args.window_length)} :
       \E diff \in {AbsDiff(signal_temp, running_median)} :
       \E med_abs_deviation \in {RunningMedian(diff, args.window_length)} :
       \E z \in {ModifiedZScore(diff, med_abs_deviation)} :
       \E out \in {RemoveOutliers(ret.value, signal_temp, z, args.threshold)} :
          /\ frame' = [signal_temp |-> signal_temp,
                       running_median |-> running_median,
                       diff |-> diff,
                       med_abs_deviation |-> med_abs_deviation,
                       modified_z_score |-> z]
          /\ heap' = [signal |-> heap.signal, first |-> out]
          /\ args' = [args EXCEPT !.signal = ret.value]
          /\ ret' = [value |-> out]
    /\ pc' = "done_again"

NextOutliersTwice == detect_outliers \/ detect_outliers_again

SpecOutliersTwice == InitOutliers /\ [][NextOutliersTwice]_vars

\* C14, as stated: the second call returns the series the first one
\* returned.
C14_Idempotent ==
    pc = "done_again" => ret.value = heap.signal

\* C14, as the code has it: the second call returns a series of the same
\* length in which every sample missing after the first call is still
\* missing and every other sample is missing or holds the value the first
\* call returned; it may remove samples the first call kept.
C14_SecondCallOnlyRemoves ==
    pc = "done_again" =>
        /\ Len(ret.value) = Len(heap.signal)
        /\ \A i \in 1..Len(heap.signal) :
              IF IsNaN(heap.signal[i]) THEN IsNaN(ret.value[i])
              ELSE IsNaN(ret.value[i]) \/ ret.value[i] = heap.signal[i]

\* A second call that removes a sample the first call kept, the first call
\* having removed one itself.
C14_Witness ==
    /\ pc = "done_again"
    /\ \E i \in 1..Len(heap.signal) :
          ~IsNaN(heap.signal[i]) /\ IsNaN(ret.value[i])
    /\ \E i \in 1..Len(heap.signal) :
          /\ IsNaN(heap.signal[i])
          /\ ~IsNaN(frame.signal_temp[i])
    /\ \E i \in 1..Len(ret.value) : ~IsNaN(ret.value[i])

\* Bounds of the smooth series with one displaced sample.
MaxTrend == 2
MaxWiggle == 2
MaxExtra == 1

\* A series without missing samples: a level, a constant change per sample
\* and an alternation about it.  Samples are multiples of 4, which keeps the
\* median absolute deviation a whole number.
SmoothSeries(n, trend, wiggle) ==
    [t \in 1..n |-> 4 * (100 + trend * t + wiggle * (t % 2))]

\* The series with sample k displaced by 50 times the local MAD, up or down;
\* mad is the median absolute deviation detect_outliers finds at k, four-fold.
Displaced(series, k, sign, mad) ==
    [series EXCEPT ![k] = series[k] + sign * ((50 * mad) \div 4)]

\* The samples whose window of w lies within a series of n samples.
Interior(n, w) == {k \in 1..n : k + ((w - 1) \div 2) - w + 1 >= 1
                                /\ k + ((w - 1) \div 2) <= n}

InitSpike ==
    /\ pc = "detect_outliers"
    /\ \E n \in 24..(24 + MaxExtra), trend \in 0..MaxTrend,
          wiggle \in 0..MaxWiggle, sign \in {1, -1} :
         \E smooth \in {SmoothSeries(n, trend, wiggle)} :
         \E running_median \in {RunningMedian(smooth, 12)} :
         \E diff \in {AbsDiff(smooth, running_median)} :
         \E med_abs_deviation \in {RunningMedian(diff, 12)} :
         \E k \in Interior(n, 12) :
            /\ med_abs_deviation[k] > 0
            /\ \E sig \in {Displaced(smooth, k, sign, med_abs_deviation[k])} :
                  /\ args = [signal |-> sig, window_length |-> 12,
                             threshold |-> 3]
                  /\ heap = [signal |-> sig, smooth |-> smooth]
    /\ frame = None
    /\ ret = None

SpecSpike == InitSpike /\ [][NextOutliers]_vars

\* C15, as stated: on a smooth series with one interior sample displaced by
\* 50 times the local MAD, window_length 12 and threshold 3, the displaced
\* sample is the one sample that becomes missing and every other sample
\* keeps its value.
C15_ExactlyTheDisplacedSample ==
    pc = "done" =>
        \A i \in 1..Len(args.signal) :
            IF args.signal[i] # heap.smooth[i] THEN IsNaN(ret.value[i])
            ELSE ret.value[i] = args.signal[i]

MaxRows == 4
MaxComponent == 4
MaxDenominator == 40

Components == SubSeq(Labels, 1, 3)
Cols == 1..Len(Components)

RECURSIVE SeqSum(_)
SeqSum(s) == IF s = <<>> THEN 0 ELSE s[1] + SeqSum(Tail(s))

RECURSIVE GCD(_, _)
GCD(a, b) == IF b = 0 THEN a ELSE GCD(b, a % b)
LCM(a, b) == (a * b) \div GCD(a, b)

RECURSIVE SeqLcm(_)
SeqLcm(s) == IF s = <<>> THEN 1 ELSE LCM(s[1], SeqLcm(Tail(s)))

\* A missing number of the form num / den, and of the form num / sqrt(rad).
RNaN == [num |-> NaN, den |-> 1]
Masked == [num |-> NaN, rad |-> 1]
IsMissing(v) == IsNaN(v.num)

\* np.ma.array(residuals, mask=np.isnan(residuals)): the rows at which column
\* c is not masked.
Present(X, c) == {t \in 1..Len(X) : ~IsNaN(X[t][c])}
Count(X, c) == Cardinality(Present(X, c))
ColSum(X, c) == SeqSum([t \in 1..Len(X) |-> IF IsNaN(X[t][c]) THEN 0 ELSE X[t][c]])

\* Count(X, c) * (X[t][c] - mean of the unmasked entries of column c)
Deviation(X, t, c) == Count(X, c) * X[t][c] - ColSum(X, c)

\* The rows that enter cell (i, j) of the covariance matrix: those at which
\* both columns are unmasked.
Both(X, i, j) == Present(X, i) \cap Present(X, j)

\* Cell (i, j) of np.ma.cov(masked_residuals, rowvar=False, allow_masked=True)
\* is CellNum / CellDen: the products of the deviations over the common rows,
\* divided by their number less one.  With fewer than two common rows the
\* cell is masked and its data, which np.linalg.eig reads, is the undivided
\* sum.
CellNum(X, i, j) ==
    SeqSum([t \in 1..Len(X) |->
              IF t \in Both(X, i, j)
              THEN Deviation(X, t, i) * Deviation(X, t, j) ELSE 0])
CellDen(X, i, j) ==
    Max(Count(X, i), 1) * Max(Count(X, j), 1)
        * Max(Cardinality(Both(X, i, j)) - 1, 1)

CovDen(X) ==
    SeqLcm([k \in 1..(Len(Components) * Len(Components)) |->
              CellDen(X, ((k - 1) \div Len(Components)) + 1,
                         ((k - 1) % Len(Components)) + 1)])

\* The covariance matrix as num / den, den common to all cells.
MaCov(X) ==
    CHOOSE cov \in {[den |-> D,
                     num |-> [i \in Cols |-> [j \in Cols |->
                               CellNum(X, i, j) * (D \div CellDen(X, i, j))]]] :
                    D \in {CovDen(X)}} : TRUE

RECURSIVE DotFrom(_, _, _)
DotFrom(u, v, i) == IF i > Len(u) THEN 0 ELSE u[i] * v[i] + DotFrom(u, v, i + 1)
Dot(u, v) == DotFrom(u, v, 1)
MatVec(K, u) == [i \in Cols |-> Dot(K[i], u)]
Negate(u) == [i \in Cols |-> -u[i]]
UnitVector(k) == [i \in Cols |-> IF i = k THEN 1 ELSE 0]
AbsInt(a) == IF a < 0 THEN -a ELSE a

\* The first non-zero component of u is positive.
RECURSIVE LeadsPositive(_, _)
LeadsPositive(u, i) ==
    IF i > Len(u) THEN FALSE
    ELSE IF u[i] # 0 THEN u[i] > 0 ELSE LeadsPositive(u, i + 1)

RECURSIVE SeqGcd(_)
SeqGcd(s) == IF s = <<>> THEN 0 ELSE GCD(AbsInt(s[1]), SeqGcd(Tail(s)))

\* One integer vector for every direction within the bound.
Box == {u : u \in [Cols -> (-MaxComponent)..MaxComponent]}
Directions == {u \in Box : LeadsPositive(u, 1) /\ SeqGcd(u) = 1}

IsEigenvector(K, u) ==
    \E Ku \in {MatVec(K, u)} :
        \E n2 \in {Dot(u, u)}, q \in {Dot(u, Ku)} :
            \A i \in Cols : n2 * Ku[i] = q * u[i]

\* The eigenvalue of eigenvector u of K, as num / den.
Eigenvalue(K, u) == [num |-> Dot(u, MatVec(K, u)), den |-> Dot(u, u)]
RatLt(a, b) == a.num * b.den < b.num * a.den
RatEq(a, b) == a.num * b.den = b.num * a.den

\* The rows residual matrices are made of: each family gives the matrices
\* whose rows are all drawn from it.
RowFamilies ==
    { {<<1, 1, 1>>, <<2, -1, NaN>>, <<2, NaN, -1>>, <<-1, 1, 1>>, <<NaN, NaN, NaN>>},
      {<<2, 0, 0>>, <<0, 2, 0>>, <<-2, -2, 0>>, <<NaN, NaN, NaN>>},
      {<<2, 0, NaN>>, <<0, 2, NaN>>, <<-2, -2, NaN>>, <<1, NaN, NaN>>} }

Candidates == UNION {[1..T -> F] : T \in 0..MaxRows, F \in RowFamilies}

\* The covariance matrices of the candidates, each with its eigen-directions
\* within the bound, worked out once.
EigenSystems ==
    {[matrix |-> K, directions |-> {u \in Directions : IsEigenvector(K, u)}] :
        K \in {MaCov(X).num : X \in Candidates}}

EigenDirections(K) == (CHOOSE s \in EigenSystems : s.matrix = K).directions

Diagonal(K) == \A i, j \in Cols : i # j => K[i][j] = 0

\* The common denominator of the projectors u u^T / (u.u).
Denominator(vecs) == SeqLcm([k \in 1..Len(vecs) |-> Dot(vecs[k], vecs[k])])

\* K has distinct eigenvalues and eigen-directions within the bounds.
SimpleSpectrum(K) ==
    \E E \in {EigenDirections(K)} :
        /\ Cardinality(E) = Len(Components)
        /\ \A u, v \in E : u # v => ~RatEq(Eigenvalue(K, u), Eigenvalue(K, v))
        /\ \A u, v \in E : LCM(Dot(u, u), Dot(v, v)) <= MaxDenominator * MaxDenominator
        /\ \E o \in [Cols -> E] :
              /\ \A i, j \in Cols : i # j => o[i] # o[j]
              /\ Denominator(o) <= MaxDenominator

Solvable(K) == Diagonal(K) \/ SimpleSpectrum(K)

SolvableMatrices == {K \in {s.matrix : s \in EigenSystems} : Solvable(K)}

Signs == [Cols -> {1, -1}]

\* np.linalg.eig(covariance_matrix): the eigenvalues (of K, as num / den) and
\* the eigenvectors, column k belonging to eigenvalue k.  A diagonal matrix
\* comes back with the unit vectors in order.  Otherwise the eigenvalues are
\* distinct and each eigenvector is determined up to its sign; the order the
\* solver lists them in is immaterial to the sorted result.
LinalgEig(K) ==
    IF Diagonal(K)
    THEN {[eig_values  |-> [k \in Cols |-> [num |-> K[k][k], den |-> 1]],
           eig_vectors |-> [k \in Cols |-> UnitVector(k)]]}
    ELSE UNION {
           {[eig_values  |-> [k \in Cols |-> Eigenvalue(K, o[k])],
             eig_vectors |-> [k \in Cols |->
                               IF sg[k] = 1 THEN o[k] ELSE Negate(o[k])]] :
               sg \in Signs} :
           o \in {CHOOSE f \in [Cols -> EigenDirections(K)] :
                    \A i, j \in Cols : i # j => f[i] # f[j]}}

\* np.argsort(eig_values): the stable ascending order.
AscendingPosition(vals, i) ==
    Cardinality({j \in DOMAIN vals : RatLt(vals[j], vals[i])})
      + Cardinality({j \in DOMAIN vals : j < i /\ RatEq(vals[j], vals[i])}) + 1
Argsort(vals) ==
    [p \in DOMAIN vals |-> CHOOSE i \in DOMAIN vals : AscendingPosition(vals, i) = p]

\* np.argsort(eig_values)[::-1]
ArgsortDescending(vals) ==
    LET idx == Argsort(vals)
    IN  [k \in DOMAIN vals |-> idx[Len(vals) + 1 - k]]

Reorder(s, idx) == [k \in DOMAIN idx |-> s[idx[k]]]

\* masked_residuals filled with 0, as np.ma.dot (strict=False) takes it.
Filled(row) == [c \in DOMAIN row |-> IF IsNaN(row[c]) THEN 0 ELSE row[c]]
AllMasked(row) == \A c \in DOMAIN row : IsNaN(row[c])

\* A variant that takes the size of each projection without its sign.
ProjectUnsigned(X, vecs) ==
    [t \in 1..Len(X) |->
        [k \in 1..Len(vecs) |->
            IF AllMasked(X[t]) THEN Masked
            ELSE [num |-> AbsInt(Dot(Filled(X[t]), vecs[k])),
                  rad |-> Dot(vecs[k], vecs[k])]]]

\* A variant that masks the projections of a row with any entry masked.
ProjectStrict(X, vecs) ==
    [t \in 1..Len(X) |->
        [k \in 1..Len(vecs) |->
            IF \E c \in DOMAIN X[t] : IsNaN(X[t][c]) THEN Masked
            ELSE [num |-> Dot(X[t], vecs[k]),
                  rad |-> Dot(vecs[k], vecs[k])]]]

\* np.ma.dot(masked_residuals, eig_vectors): entry [t][k] is
\* num / sqrt(rad), masked when every entry of row t is masked.
Project(X, vecs) ==
    [t \in 1..Len(X) |->
        [k \in 1..Len(vecs) |->
            IF AllMasked(X[t]) THEN Masked
            ELSE [num |-> Dot(Filled(X[t]), vecs[k]),
                  rad |-> Dot(vecs[k], vecs[k])]]]

\* A variant that reads a missing residual as 0.
SubtractFilled(corrected, row, projected, direction, den) ==
    [c \in DOMAIN corrected |->
        IF IsMissing(projected) THEN RNaN
        ELSE [num |-> (IF IsMissing(corrected[c]) THEN 0 ELSE corrected[c].num)
                        - projected.num * direction[c] * (den \div projected.rad),
              den |-> den]]

\* A variant that puts the projection back in instead of taking it out.
SubtractDirectionAdded(corrected, row, projected, direction, den) ==
    [c \in DOMAIN corrected |->
        IF IsMissing(corrected[c]) \/ IsMissing(projected) THEN RNaN
        ELSE [num |-> corrected[c].num
                        + projected.num * direction[c] * (den \div projected.rad),
              den |-> den]]

\* corrected - projected * direction for one row, every entry num / den with
\* den a multiple of the squared norm of the direction.  A masked projection
\* masks the row; a NaN of the data stays a NaN.
SubtractDirection(corrected, row, projected, direction, den) ==
    [c \in DOMAIN corrected |->
        IF IsMissing(corrected[c]) \/ IsMissing(projected) THEN RNaN
        ELSE [num |-> corrected[c].num
                        - projected.num * direction[c] * (den \div projected.rad),
              den |-> den]]

\* masked_residuals.data[idx, :] as numbers num / den
DataRow(row, den) ==
    [c \in DOMAIN row |->
        IF IsNaN(row[c]) THEN RNaN ELSE [num |-> den * row[c], den |-> den]]

\* The loop over direction in range(proxy_number), from direction on.
RECURSIVE CorrectLoop(_, _, _, _, _, _, _)
CorrectLoop(corrected, row, projected_row, vecs, direction, proxy_number, den) ==
    IF direction > proxy_number THEN corrected
    ELSE CorrectLoop(
            SubtractDirection(corrected, row, projected_row[direction],
                              vecs[direction], den),
            row, projected_row, vecs, direction + 1, proxy_number, den)

\* A variant that stops one direction short.
CorrectedResidualsShort(X, projected, vecs, proxy_number, den) ==
    [t \in 1..Len(X) |->
        CorrectLoop(DataRow(X[t], den), X[t], projected[t], vecs, 1,
                    proxy_number - 1, den)]

\* The list corrected_residuals for 1 <= proxy_number <= number of columns.
CorrectedResiduals(X, projected, vecs, proxy_number, den) ==
    [t \in 1..Len(X) |->
        IF proxy_number = 1
        THEN SubtractDirection(DataRow(X[t], den), X[t], projected[t][1],
                               vecs[1], den)
        ELSE CorrectLoop(DataRow(X[t], den), X[t], projected[t], vecs, 1,
                         proxy_number, den)]

\* A variant that sums the projections on every direction.
ProxyAllDirections(projected, proxy_number) == projected

\* proxy: projected_residuals[:, 0] or np.sum(projected_residuals[:,
\* 0:proxy_number], axis=1), the sum kept as its terms.
Proxy(projected, proxy_number) ==
    [t \in 1..Len(projected) |->
        SubSeq(projected[t], 1, Min(proxy_number, Len(projected[t])))]

\* corrected_residuals.values + model_data.values, entry by entry.
AddModelWrong(v, m) ==
    IF IsMissing(v) \/ IsNaN(m) THEN RNaN
    ELSE [num |-> v.num - m * v.den, den |-> v.den]

AddModel(v, m) ==
    IF IsMissing(v) \/ IsNaN(m) THEN RNaN
    ELSE [num |-> v.num + m * v.den, den |-> v.den]

\* The residual matrices the model calls eigenvalue_analysis on: those of one
\* row, on which the call ends before the solver, and those with a covariance
\* matrix the solver is modelled on.
ResidualMatrices ==
    {X \in Candidates : Len(X) = 1 \/ MaCov(X).num \in SolvableMatrices}

\* The model prediction of date t and column c.
ModelValue(t, c) == 10 * t + c

EigArgs(X, p) ==
    [dates |-> [t \in 1..Len(X) |-> t],
     obs_data |-> [columns |-> Components,
                   values |-> [t \in 1..Len(X) |->
                                 [c \in Cols |-> Add(X[t][c], ModelValue(t, c))]]],
     model_data |-> [columns |-> Components,
                     values |-> [t \in 1..Len(X) |->
                                   [c \in Cols |-> ModelValue(t, c)]]],
     residuals |-> X,
     proxy_number |-> p]

Init ==
    /\ pc = "eig"
    /\ \E X \in ResidualMatrices, p \in (-1)..(Len(Components) + 1) :
          args = EigArgs(X, p)
    /\ heap = None
    /\ frame = None
    /\ ret = None

\* Lines 198-211: the masked covariance matrix, its eigen-decomposition and
\* the sort.  A single row makes np.ma.cov take the row as the variable; the
\* covariance is then a scalar, which np.linalg.eig refuses.
eigenvalue_analysis_eig ==
    /\ pc = "eig"
    /\ IF Len(args.residuals) = 1
       THEN /\ ret' = Raise("LinAlgError")
            /\ pc' = "done"
            /\ UNCHANGED frame
       ELSE \E cov \in {MaCov(args.residuals)} :
              \E e \in LinalgEig(cov.num) :
                \E idx \in {ArgsortDescending(e.eig_values)} :
                  /\ frame' = [covariance_matrix |-> cov,
                               eig_values |->
                                 [k \in Cols |->
                                    [num |-> e.eig_values[idx[k]].num,
                                     den |-> e.eig_values[idx[k]].den * cov.den]],
                               eig_vectors |-> Reorder(e.eig_vectors, idx)]
                  /\ pc' = "correct"
                  /\ UNCHANGED ret
    /\ UNCHANGED <<args, heap>>

\* Lines 213-236: the projection, the proxy and the corrected residuals.
\* Neither branch runs for proxy_number < 1, which leaves proxy unbound and
\* the list empty; the loop indexes past the last direction for
\* proxy_number above the number of columns.
eigenvalue_analysis_correct ==
    /\ pc = "correct"
    /\ \E projected \in {Project(args.residuals, frame.eig_vectors)},
          den \in {Denominator(frame.eig_vectors)} :
         IF args.proxy_number >= 1
         THEN IF args.proxy_number > Len(Components) /\ Len(args.residuals) > 0
              THEN /\ ret' = Raise("IndexError")
                   /\ pc' = "done"
                   /\ UNCHANGED frame
              ELSE /\ frame' = [covariance_matrix |-> frame.covariance_matrix,
                                eig_values |-> frame.eig_values,
                                eig_vectors |-> frame.eig_vectors,
                                projected_residuals |-> projected,
                                proxy |-> Proxy(projected, args.proxy_number),
                                corrected_residuals |->
                                    CorrectedResiduals(args.residuals, projected,
                                        frame.eig_vectors, args.proxy_number, den)]
                   /\ pc' = "rebuild"
                   /\ UNCHANGED ret
         ELSE /\ frame' = [covariance_matrix |-> frame.covariance_matrix,
                           eig_values |-> frame.eig_values,
                           eig_vectors |-> frame.eig_vectors,
                           projected_residuals |-> projected,
                           corrected_residuals |-> <<>>]
              /\ pc' = "rebuild"
              /\ UNCHANGED ret
    /\ UNCHANGED <<args, heap>>

\* corrected_residuals.values + model_data.values
DenoisedValues(corrected, model) ==
    [t \in 1..BroadcastLen(Len(corrected), Len(model)) |->
        [c \in Cols |->
            AddModel(corrected[IF Len(corrected) = 1 THEN 1 ELSE t][c],
                     model[IF Len(model) = 1 THEN 1 ELSE t][c])]]

\* Lines 238-247: the two tables and the return.
eigenvalue_analysis_return ==
    /\ pc = "rebuild"
    /\ IF BroadcastLen(Len(frame.corrected_residuals),
                       Len(args.model_data.values)) < 0
       THEN ret' = Raise("ValueError")
       ELSE \E values \in {DenoisedValues(frame.corrected_residuals,
                                          args.model_data.values)} :
              IF Len(values) # Len(args.dates)
              THEN ret' = Raise("ValueError")
              ELSE IF "proxy" \notin DOMAIN frame
              THEN ret' = Raise("UnboundLocalError")
              ELSE ret' = [value |->
                            [denoised_sv |-> [date |-> args.dates,
                                              columns |-> args.obs_data.columns,
                                              values |-> values],
                             proxy |-> frame.proxy,
                             eig_values |-> frame.eig_values,
                             eig_vectors |-> frame.eig_vectors,
                             projected_residuals |-> frame.projected_residuals,
                             corrected_residuals |->
                                 [columns |-> args.obs_data.columns,
                                  values |-> frame.corrected_residuals]]]
    /\ pc' = "done"
    /\ UNCHANGED <<args, heap, frame>>

Next ==
    \/ eigenvalue_analysis_eig
    \/ eigenvalue_analysis_correct
    \/ eigenvalue_analysis_return

Spec == Init /\ [][Next]_vars

(***************************************************************************)
(* Properties of denoise.eigenvalue_analysis                                *)
(***************************************************************************)

Finished == pc = "done" /\ Returned(ret)
ValidProxyNumber == args.proxy_number \in 1..Len(Components)
Rows == 1..Len(args.residuals)

\* C1: whenever eigenvalue_analysis returns for a valid proxy_number, every
\* entry that is missing in residuals is missing in corrected_residuals and
\* in denoised_sv; a column missing on every date is missing on every date
\* of denoised_sv.
C1_MaskNeverFabricates ==
    (Finished /\ ValidProxyNumber) =>
        \A t \in Rows, c \in Cols :
            IsNaN(args.residuals[t][c]) =>
                /\ IsMissing(ret.value.corrected_residuals.values[t][c])
                /\ IsMissing(ret.value.denoised_sv.values[t][c])

\* A returned call on residuals with a column missing on every date, another
\* column holding numbers.
C1_Witness ==
    /\ Finished /\ ValidProxyNumber
    /\ Len(args.residuals) >= 2
    /\ \E c \in Cols : \A t \in Rows : IsNaN(args.residuals[t][c])
    /\ \E t \in Rows, c \in Cols :
          ~IsMissing(ret.value.denoised_sv.values[t][c])

\* C7: denoised_sv has one row per row of residuals, the supplied dates,
\* the column labels of obs_data in order, and every entry is the corrected
\* residual plus the model prediction of the same date and column.
C7_DenoisedIsCorrectedPlusModel ==
    Finished =>
        LET d == ret.value.denoised_sv
            corrected == ret.value.corrected_residuals.values
            model == args.model_data.values
        IN  /\ Len(d.values) = Len(args.residuals)
            /\ d.date = args.dates
            /\ d.columns = args.obs_data.columns
            /\ \A t \in Rows, c \in Cols :
                  IF IsMissing(corrected[t][c]) \/ IsNaN(model[t][c])
                  THEN IsMissing(d.values[t][c])
                  ELSE /\ ~IsMissing(d.values[t][c])
                       /\ d.values[t][c].num * corrected[t][c].den
                            = (corrected[t][c].num
                                 + model[t][c] * corrected[t][c].den)
                              * d.values[t][c].den

\* A returned call with a corrected residual that is neither missing nor 0.
C7_Witness ==
    /\ Finished
    /\ \E t \in Rows, c \in Cols :
          /\ ~IsMissing(ret.value.corrected_residuals.values[t][c])
          /\ ret.value.corrected_residuals.values[t][c].num # 0
          /\ ~IsMissing(ret.value.denoised_sv.values[t][c])

\* C8: with proxy_number equal to the number of columns every non-missing
\* corrected residual is 0 and denoised_sv equals model_data there.
C8_AllDirectionsRemoveAll ==
    (Finished /\ args.proxy_number = Len(Components)) =>
        \A t \in Rows, c \in Cols :
            LET v == ret.value.corrected_residuals.values[t][c]
                d == ret.value.denoised_sv.values[t][c]
            IN  ~IsMissing(v) =>
                    /\ v.num = 0
                    /\ ~IsMissing(d)
                    /\ d.num = args.model_data.values[t][c] * d.den

\* A returned call with proxy_number the number of columns, on residuals
\* with a row that has a non-zero entry next to a missing one.
C8_Witness ==
    /\ Finished
    /\ args.proxy_number = Len(Components)
    /\ \E t \in Rows :
          /\ \E c \in Cols : IsNaN(args.residuals[t][c])
          /\ \E c \in Cols :
                /\ ~IsNaN(args.residuals[t][c]) /\ args.residuals[t][c] # 0
                /\ ~IsMissing(ret.value.corrected_residuals.values[t][c])

\* The sum of the squared numerators of the non-missing entries; all entries
\* of one table share the denominator.
SumOfSquares(values) ==
    SeqSum([k \in 1..(Len(values) * Len(Components)) |->
              LET v == values[((k - 1) \div Len(Components)) + 1]
                             [((k - 1) % Len(Components)) + 1]
              IN  IF IsMissing(v) THEN 0 ELSE v.num * v.num])

\* What the call would have returned as corrected_residuals for proxy_number
\* p: the eigenvectors do not depend on proxy_number, and their signs cancel.
CorrectedFor(p) ==
    CorrectedResiduals(args.residuals, ret.value.projected_residuals,
                       ret.value.eig_vectors, p,
                       Denominator(ret.value.eig_vectors))

\* The entries missing in corrected_residuals are the same for every
\* proxy_number, so the RMS over them compares as the sum of squares.
RmsNotAbove(p) ==
    SumOfSquares(ret.value.corrected_residuals.values)
        <= SumOfSquares(CorrectedFor(p))

Complete(X) == \A t \in 1..Len(X), c \in Cols : ~IsNaN(X[t][c])

\* C9, as stated: for every residual matrix and 1 <= p < q, the RMS of the
\* corrected residuals for proxy_number q is not above that for p.
C9_RmsNonIncreasing ==
    (Finished /\ ValidProxyNumber) =>
        \A p \in 1..(args.proxy_number - 1) : RmsNotAbove(p)

\* C9, restricted: for every residual matrix without missing entries and
\* 1 <= p < q, the RMS for proxy_number q is not above that for p.
C9_RmsNonIncreasingComplete ==
    (Finished /\ ValidProxyNumber /\ Complete(args.residuals)) =>
        \A p \in 1..(args.proxy_number - 1) : RmsNotAbove(p)

\* A returned call with proxy_number 2 on complete residuals, of which the
\* second direction took a part.
C9_Witness ==
    /\ Finished
    /\ args.proxy_number = 2
    /\ Complete(args.residuals)
    /\ Len(args.residuals) >= 2
    /\ SumOfSquares(ret.value.corrected_residuals.values)
          < SumOfSquares(CorrectedFor(1))

\* C10, as stated: a call with proxy_number outside 1..number of columns
\* ends in an error.
C10_InvalidProxyNumberRaises ==
    (pc = "done" /\ ~ValidProxyNumber) => Raised(ret)

(***************************************************************************)
(* denoise.eigenvalue_analysis_impute                                       *)
(*                                                                          *)
(* The model calls it on the residual matrices without missing entries, on *)
(* which the imputer has nothing to fill.                                   *)
(***************************************************************************)

\* The mean of the entries of column c that are not missing, as num / den.
ColumnMean(X, c) == [num |-> ColSum(X, c), den |-> Count(X, c)]

\* The columns the imputer keeps: those with an entry that is not missing.
KeptColumns(X) ==
    LET kept == {c \in Cols : Count(X, c) > 0}
        Nth[k \in 1..Cardinality(kept)] ==
            CHOOSE c \in kept : Cardinality({b \in kept : b < c}) = k - 1
    IN  [k \in 1..Cardinality(kept) |-> Nth[k]]

\* Imputer(missing_values='NaN', strategy='mean', axis=0).fit_transform: a
\* missing entry becomes the mean of its column; a column missing on every
\* row is dropped.  Entries are num / den.
ImputerFitTransform(X) ==
    LET kept == KeptColumns(X)
    IN  [t \in 1..Len(X) |->
            [k \in DOMAIN kept |->
                IF IsNaN(X[t][kept[k]]) THEN ColumnMean(X, kept[k])
                ELSE [num |-> X[t][kept[k]], den |-> 1]]]

\* pca.explained_variance_ for a matrix without missing entries: the
\* eigenvalues of its covariance matrix in descending order, the first
\* min(rows, columns) of them.  The squared singular values are divided by
\* the number of rows less ddof: 1 as from scikit-learn 0.19, 0 before.  One
\* row with ddof 1 divides 0 by 0.
ExplainedVariance(X, ddof) ==
    LET cov == MaCov(X)
        e == CHOOSE r \in LinalgEig(cov.num) : TRUE
        idx == ArgsortDescending(e.eig_values)
        n == Len(X)
    IN  [k \in 1..Min(n, Len(Components)) |->
            IF n - ddof = 0 THEN RNaN
            ELSE [num |-> e.eig_values[idx[k]].num * (n - 1),
                  den |-> e.eig_values[idx[k]].den * cov.den * (n - ddof)]]

CompleteMatrices == {X \in ResidualMatrices : \A t \in 1..Len(X), c \in Cols : ~IsNaN(X[t][c])}

InitImpute ==
    /\ pc = "impute"
    /\ \E X \in ResidualMatrices, p \in (-1)..(Len(Components) + 1) :
          args = EigArgs(X, p)
    /\ heap = None
    /\ frame = None
    /\ ret = None

\* The whole call.  The imputer refuses a matrix of no rows, and the PCA one
\* of no columns, which is what the imputer leaves of residuals missing
\* everywhere.  The loops of
\* lines 109-111 and 115-120 index imputed_residuals.data, the buffer of an
\* ndarray, with [idx, :], which a memoryview refuses: the first row raises
\* TypeError.  Without a row to loop over, or with proxy_number below 1,
\* the call goes on as eigenvalue_analysis does.  The eigenvalues of the
\* PCA, which nothing reads before the call ends, are worked out for
\* residuals without missing entries only.
eigenvalue_analysis_impute ==
    /\ pc = "impute"
    /\ IF Len(args.residuals) = 0
       THEN /\ ret' = Raise("ValueError")
            /\ UNCHANGED frame
       ELSE IF KeptColumns(args.residuals) = <<>>
       THEN /\ ret' = Raise("ValueError")
            /\ frame' = [imputed_residuals |->
                            ImputerFitTransform(args.residuals)]
       ELSE \E imputed \in {ImputerFitTransform(args.residuals)}, ddof \in {0, 1} :
            \E eig_values \in {IF args.residuals \in CompleteMatrices
                                THEN ExplainedVariance(args.residuals, ddof)
                                ELSE None} :
              /\ frame' = IF args.residuals \in CompleteMatrices
                          THEN [imputed_residuals |-> imputed,
                                eig_values |-> eig_values]
                          ELSE [imputed_residuals |-> imputed]
              /\ IF args.proxy_number >= 1
                 THEN ret' = Raise("TypeError")
                 ELSE IF BroadcastLen(0, Len(args.model_data.values)) < 0
                          \/ BroadcastLen(0, Len(args.model_data.values))
                               # Len(args.dates)
                 THEN ret' = Raise("ValueError")
                 ELSE ret' = Raise("UnboundLocalError")
    /\ pc' = "done"
    /\ UNCHANGED <<args, heap>>

NextImpute == eigenvalue_analysis_impute

SpecImpute == InitImpute /\ [][NextImpute]_vars

\* The eigenvalues eigenvalue_analysis returns for the residuals handed
\* over, as the model of that call finds them.
MaskEigenvalues ==
    LET cov == MaCov(args.residuals)
        e == CHOOSE r \in LinalgEig(cov.num) : TRUE
        idx == ArgsortDescending(e.eig_values)
    IN  [k \in Cols |-> [num |-> e.eig_values[idx[k]].num,
                         den |-> e.eig_values[idx[k]].den * cov.den]]

\* C19, as stated: on residuals without missing entries
\* eigenvalue_analysis_impute returns the eigenvalues eigenvalue_analysis
\* returns, up to their order.
C19_SameEigenvaluesAsMask ==
    (pc = "done" /\ args.proxy_number \in 1..Len(Components)
       /\ Len(args.residuals) >= 2
       /\ args.residuals \in CompleteMatrices) =>
        /\ Returned(ret)
        /\ Len(ret.value.eig_values) = Len(Components)
        /\ \E perm \in [Cols -> Cols] :
              /\ \A i, j \in Cols : i # j => perm[i] # perm[j]
              /\ \A i \in Cols :
                    RatEq(ret.value.eig_values[perm[i]], MaskEigenvalues[i])

\* The absolute value of a number num / den, den positive.
AbsRat(v) == [num |-> AbsInt(v.num), den |-> v.den]

\* C18, as stated: the eigenvalues returned are in descending order of
\* absolute value, and eigenvector i belongs to eigenvalue i of the
\* covariance matrix.
C18_DescendingAbsoluteValue ==
    Finished =>
        /\ \A i \in 1..(Len(Components) - 1) :
              ~RatLt(AbsRat(ret.value.eig_values[i]),
                     AbsRat(ret.value.eig_values[i + 1]))
        /\ \A i \in Cols :
              LET u == ret.value.eig_vectors[i]
                  lambda == ret.value.eig_values[i]
                  Ku == MatVec(frame.covariance_matrix.num, u)
              IN  \A c \in Cols :
                      lambda.den * Ku[c]
                        = lambda.num * frame.covariance_matrix.den * u[c]

(***************************************************************************)
(* io.wdc_to_hourly_csv                                                    *)
(*                                                                         *)
(* heap is the world outside the call: whether write_dir exists, the WDC   *)
(* files found for each observatory, the CSV files written, the lines on   *)
(* standard output, and the calls made so far, in the order made.          *)
(***************************************************************************)
MaxObs == 2
MaxFiles == 1

Observatories == {"ESK", "esk", "NGK"}

\* str.lower on the observatory names.
Lower(obs_name) == IF obs_name = "ESK" THEN "esk"
                   ELSE IF obs_name = "NGK" THEN "ngk"
                   ELSE obs_name

\* The lists of at most n observatory names.
ObsLists(n) == UNION {[1..k -> Observatories] : k \in 0..n}

Str(s) == [str |-> s]

WriteDir == "out"

\* One entry of the record of calls.
Call(fn, obs_name, dir, data) ==
    [fn |-> fn, obs_name |-> obs_name, dir |-> dir, data |-> data]

\* glob.glob of path/<obs_name.lower()>*.wdc: the yearly files of the
\* observatory, by name.
Glob(files, obs_name) ==
    [y \in 1..files[Lower(obs_name)] |-> <<Lower(obs_name), y>>]

\* append_wdc_data: the frames of the files found, appended in order.
AppendWdcData(files, obs_name) == Glob(files, obs_name)

\* os.path.exists(write_dir) is False.
MissingAlways(exists) == TRUE
Missing(exists) == ~exists

\* The loop variable of the for statement at its i-th turn.
Observatory(obs_list, i) == obs_list[i]

\* print_obs is True: the object True itself, no other truthy value.
IsTrue(print_obs) == print_obs = "True"

InitWdc ==
    /\ pc = "wdc_to_hourly_csv"
    /\ \E obs_list \in ObsLists(MaxObs), print_obs \in {"True", "False", "1"},
          wdc_path \in {None, Str("data")} :
          args = [wdc_path |-> wdc_path, write_dir |-> WriteDir,
                  obs_list |-> obs_list, print_obs |-> print_obs]
    /\ \E exists \in BOOLEAN,
          files \in [{Lower(o) : o \in Observatories} -> 0..MaxFiles] :
          heap = [exists |-> exists, existed |-> exists, wdc_files |-> files,
                  csv |-> {}, stdout |-> <<>>, calls |-> <<>>]
    /\ frame = None
    /\ ret = None

\* Lines 393-394: the output directory is made when it is not there.
wdc_makedirs ==
    /\ pc = "wdc_to_hourly_csv"
    /\ IF Missing(heap.exists)
       THEN heap' = [heap EXCEPT
                       !.exists = TRUE,
                       !.calls = Append(@, Call("os.makedirs", "",
                                                args.write_dir, <<>>))]
       ELSE UNCHANGED heap
    /\ frame' = [i |-> 1]
    /\ pc' = "for"
    /\ UNCHANGED <<args, ret>>

\* Line 396: the next observatory of the list, or the end of the function.
wdc_for ==
    /\ pc = "for"
    /\ IF frame.i <= Len(args.obs_list)
       THEN /\ frame' = [i |-> frame.i,
                         observatory |-> Observatory(args.obs_list, frame.i)]
            /\ pc' = "print"
            /\ UNCHANGED ret
       ELSE /\ ret' = [value |-> None]
            /\ pc' = "done"
            /\ UNCHANGED frame
    /\ UNCHANGED <<args, heap>>

\* Lines 397-398.
wdc_print ==
    /\ pc = "print"
    /\ IF IsTrue(args.print_obs)
       THEN heap' = [heap EXCEPT
                       !.stdout = Append(@, frame.observatory),
                       !.calls = Append(@, Call("print", frame.observatory,
                                                "", <<>>))]
       ELSE UNCHANGED heap
    /\ pc' = "append_wdc_data"
    /\ UNCHANGED <<args, frame, ret>>

\* Lines 399-401, with the callee (lines 260-275): os.path.join raises
\* TypeError on a path of None; otherwise each file found is printed and
\* its frame appended.
wdc_append ==
    /\ pc = "append_wdc_data"
    /\ IF args.wdc_path = None
       THEN /\ heap' = [heap EXCEPT
                          !.calls = Append(@, Call("append_wdc_data",
                                                   frame.observatory, "",
                                                   <<>>))]
            /\ ret' = Raise("TypeError")
            /\ pc' = "done"
            /\ UNCHANGED frame
       ELSE \E data \in {AppendWdcData(heap.wdc_files, frame.observatory)} :
            /\ heap' = [heap EXCEPT
                          !.stdout = @ \o [k \in 1..Len(data) |->
                                             data[k][1]],
                          !.calls = Append(@, Call("append_wdc_data",
                                                   frame.observatory, "",
                                                   <<>>))]
            /\ frame' = [i |-> frame.i, observatory |-> frame.observatory,
                         wdc_data |-> data]
            /\ pc' = "write_csv_data"
            /\ UNCHANGED ret
    /\ UNCHANGED args

\* Lines 402-403, with the callee (lines 424-434): the directory is made
\* again if it is missing, and the data are written to <obs_name>.csv.
wdc_write ==
    /\ pc = "write_csv_data"
    /\ LET call == Call("write_csv_data", frame.observatory,
                        args.write_dir, frame.wdc_data)
           made == IF Missing(heap.exists)
                   THEN <<Call("os.makedirs", "", args.write_dir, <<>>)>>
                   ELSE <<>>
       IN  heap' = [heap EXCEPT
                      !.exists = TRUE,
                      !.calls = Append(@, call) \o made,
                      !.csv = {f \in @ : f.name # frame.observatory}
                                \cup {[name |-> frame.observatory,
                                       data |-> frame.wdc_data]}]
    /\ frame' = [i |-> frame.i + 1]
    /\ pc' = "for"
    /\ UNCHANGED <<args, ret>>

NextWdc ==
    \/ wdc_makedirs
    \/ wdc_for
    \/ wdc_print
    \/ wdc_append
    \/ wdc_write

SpecWdc == InitWdc /\ [][NextWdc]_vars

\* The calls the conversion of one observatory makes.
CallsFor(obs_name) ==
    (IF args.print_obs = "True"
     THEN <<Call("print", obs_name, "", <<>>)>> ELSE <<>>)
    \o <<Call("append_wdc_data", obs_name, "", <<>>),
         Call("write_csv_data", obs_name, args.write_dir,
              Glob(heap.wdc_files, obs_name))>>

RECURSIVE CallsFrom(_)
CallsFrom(i) ==
    IF i > Len(args.obs_list) THEN <<>>
    ELSE CallsFor(args.obs_list[i]) \o CallsFrom(i + 1)

\* The whole record of calls of a run that returns.
ExpectedCalls ==
    (IF heap.existed THEN <<>>
     ELSE <<Call("os.makedirs", "", args.write_dir, <<>>)>>)
    \o CallsFrom(1)

IsPrefix(s, t) == Len(s) <= Len(t) /\ s = SubSeq(t, 1, Len(s))

\* C20: write_dir is made once if it was missing and never otherwise, before
\* any observatory is handled; then, for each observatory in list order, its
\* name is printed when print_obs is True, append_wdc_data is called for it,
\* and write_csv_data is called with the data returned, write_dir and the
\* name. At every moment the calls made are the beginning of that sequence,
\* and a run that returns has made all of them.
C20_CallsInOrder ==
    pc \in {"for", "print", "append_wdc_data", "write_csv_data", "done"} =>
        /\ IsPrefix(heap.calls, ExpectedCalls)
        /\ (pc = "done" /\ Returned(ret)) => heap.calls = ExpectedCalls

C20_Witness ==
    /\ pc = "done"
    /\ Returned(ret)
    /\ Len(args.obs_list) = 2
    /\ args.obs_list[1] # args.obs_list[2]
    /\ ~heap.existed
    /\ args.print_obs = "True"
    /\ \E f \in heap.csv : Len(f.data) > 0

(***************************************************************************)
(* tools.data_resampling                                                   *)
(***************************************************************************)

\* The months the samples handed to data_resampling span, after the first.
MaxMonths == 2

\* The number of samples a month can hold in the inputs.
SamplesPerMonth == 0..2

IsLeap(y) == (y % 4 = 0 /\ y % 100 # 0) \/ y % 400 = 0

DaysInMonth(y, m) ==
    IF m = 2 THEN (IF IsLeap(y) THEN 29 ELSE 28)
    ELSE IF m \in {4, 6, 9, 11} THEN 30 ELSE 31

\* The characters of the sampling strings: ch in sampling.
Contains(sampling, ch) ==
    \/ sampling = "MS" /\ ch \in {"M", "S"}
    \/ sampling = "M" /\ ch = "M"
    \/ sampling = "AS" /\ ch \in {"A", "S"}
    \/ sampling = "A" /\ ch = "A"

\* The bin a date falls in: its month for the monthly rules, its year for
\* the annual ones.
BinOf(dte, sampling) ==
    IF Contains(sampling, "M") THEN MonthIndex(dte) ELSE dte.y

\* The label the resampler gives a bin: its first day for 'MS' and 'AS', its
\* last for 'M' and 'A'.
BinLabel(b, sampling) ==
    IF sampling = "MS" THEN [y |-> b \div 12, m |-> (b % 12) + 1, d |-> 1]
    ELSE IF sampling = "M"
    THEN [y |-> b \div 12, m |-> (b % 12) + 1,
          d |-> DaysInMonth(b \div 12, (b % 12) + 1)]
    ELSE IF sampling = "AS" THEN [y |-> b, m |-> 1, d |-> 1]
    ELSE [y |-> b, m |-> 12, d |-> 31]

\* The sum and the number of the values of the rows 1..n of data that fall
\* in bin b and are not NaN.
RECURSIVE BinTotal(_, _, _, _)
BinTotal(data, sampling, b, n) ==
    IF n = 0 THEN [sum |-> 0, count |-> 0]
    ELSE LET rest == BinTotal(data, sampling, b, n - 1)
         IN  IF BinOf(data[n].date, sampling) = b /\ ~IsNaN(data[n].value)
             THEN [sum |-> rest.sum + data[n].value,
                   count |-> rest.count + 1]
             ELSE rest

\* A variant of the mean that counts the missing samples in the divisor.
BinMeanOverAll(data, sampling, b) ==
    LET total == BinTotal(data, sampling, b, Len(data))
        rows == Cardinality({n \in 1..Len(data) :
                               BinOf(data[n].date, sampling) = b})
    IN  IF total.count = 0 THEN [num |-> NaN, den |-> 1]
        ELSE [num |-> total.sum, den |-> rows]

\* .mean() of one bin: NaN values are skipped, a bin without values is NaN.
BinMean(data, sampling, b) ==
    LET total == BinTotal(data, sampling, b, Len(data))
    IN  IF total.count = 0 THEN [num |-> NaN, den |-> 1]
        ELSE [num |-> total.sum, den |-> total.count]

\* data.set_index('date', drop=False).resample(sampling).mean() followed by
\* reset_index: one row for every bin from that of the earliest date to that
\* of the latest, in order.
Resample(data, sampling) ==
    LET bins == {BinOf(data[n].date, sampling) : n \in 1..Len(data)}
        lo == CHOOSE b \in bins : \A c \in bins : b <= c
        hi == CHOOSE b \in bins : \A c \in bins : b >= c
    IN  [i \in 1..(hi - lo + 1) |->
            [date |-> BinLabel(lo + i - 1, sampling),
             value |-> BinMean(data, sampling, lo + i - 1)]]

\* date + DateOffset(month=7, day=1) and date + DateOffset(day=15): the
\* fields named are replaced.
DateOffsetReplace(dte, fields) ==
    [y |-> dte.y,
     m |-> IF "month" \in DOMAIN fields THEN fields.month ELSE dte.m,
     d |-> fields.day]

DataResampling(data, sampling, average_date) ==
    LET resampled == Resample(data, sampling)
        annual == IF IsTrue(average_date) /\ Contains(sampling, "A")
                  THEN [i \in 1..Len(resampled) |->
                          [resampled[i] EXCEPT
                             !.date = DateOffsetReplace(@, [month |-> 7,
                                                            day |-> 1])]]
                  ELSE resampled
    IN  IF IsTrue(average_date) /\ Contains(sampling, "M")
        THEN [i \in 1..Len(annual) |->
                [annual[i] EXCEPT
                   !.date = DateOffsetReplace(@, [day |-> 15])]]
        ELSE annual

\* The samples of the inputs: from December 1999 on, each month holds its
\* samples on days 1, 14, ..., with values that grow with the month and the
\* day; one sample at most is NaN; the rows come in date order or reversed.
SampleRow(slope, k, j) ==
    [date |-> MonthsAfter([y |-> 1999, m |-> 12, d |-> 1 + 13 * (j - 1)], k),
     value |-> 800 + slope * k + 3 * j * j]

RECURSIVE MonthRows(_, _, _)
MonthRows(per_month, slope, k) ==
    IF k > MaxMonths THEN <<>>
    ELSE [j \in 1..per_month[k] |-> SampleRow(slope, k, j)]
           \o MonthRows(per_month, slope, k + 1)

SampleRows(per_month, slope, gap) ==
    LET rows == MonthRows(per_month, slope, 0)
    IN  [n \in 1..Len(rows) |->
            IF n = gap THEN [rows[n] EXCEPT !.value = NaN] ELSE rows[n]]

Reverse(s) == [n \in 1..Len(s) |-> s[Len(s) + 1 - n]]

SampleTables ==
    UNION {{rows, Reverse(rows)} :
             rows \in {SampleRows(p, slope, gap) :
                         p \in [0..MaxMonths -> SamplesPerMonth],
                         slope \in {0, 7}, gap \in 0..3} \ {<<>>}}

InitResample ==
    /\ pc = "data_resampling"
    /\ \E data \in SampleTables, sampling \in {"MS", "M", "AS", "A"},
          average_date \in {"True", "False"} :
          args = [data |-> data, sampling |-> sampling,
                  average_date |-> average_date]
    /\ heap = None
    /\ frame = None
    /\ ret = None

data_resampling ==
    /\ pc = "data_resampling"
    /\ ret' = [value |-> DataResampling(args.data, args.sampling,
                                        args.average_date)]
    /\ pc' = "done"
    /\ UNCHANGED <<args, heap, frame>>

NextResample == data_resampling

SpecResample == InitResample /\ [][NextResample]_vars

\* The rows of the data handed over that are dated in month b and have a
\* value.
SamplesOfMonth(b) ==
    {n \in 1..Len(args.data) :
        MonthIndex(args.data[n].date) = b /\ ~IsNaN(args.data[n].value)}

RECURSIVE SumOfSamples(_)
SumOfSamples(S) ==
    IF S = {} THEN 0
    ELSE LET n == CHOOSE x \in S : TRUE
         IN  args.data[n].value + SumOfSamples(S \ {n})

\* C21: with sampling 'MS' and average_date True the table returned has one
\* row for every calendar month from that of the earliest sample to that of
\* the latest, in date order; each row is dated the 15th of its month and
\* holds the mean of the samples of that month (missing when the month has
\* no sample with a value).
C21_MonthlyMeansOnThe15th ==
    (pc = "done" /\ args.sampling = "MS" /\ args.average_date = "True") =>
        LET months == {MonthIndex(args.data[n].date) :
                         n \in 1..Len(args.data)}
            first == CHOOSE b \in months : \A c \in months : b <= c
            last == CHOOSE b \in months : \A c \in months : b >= c
            out == ret.value
        IN  /\ Len(out) = last - first + 1
            /\ \A i \in 1..Len(out) :
                  LET b == first + i - 1
                      S == SamplesOfMonth(b)
                  IN  /\ out[i].date = [y |-> b \div 12, m |-> (b % 12) + 1,
                                        d |-> 15]
                      /\ IF S = {} THEN IsNaN(out[i].value.num)
                         ELSE /\ ~IsNaN(out[i].value.num)
                              /\ out[i].value.num * Cardinality(S)
                                   = SumOfSamples(S) * out[i].value.den

C21_Witness ==
    /\ pc = "done"
    /\ args.sampling = "MS"
    /\ args.average_date = "True"
    /\ Len(ret.value) = MaxMonths + 1
    /\ \E i \in 1..Len(ret.value) : ret.value[i].value.den = 2
    /\ \E n \in 1..Len(args.data) : IsNaN(args.data[n].value)
    /\ \E n \in 2..Len(args.data) :
          MonthIndex(args.data[n].date) < MonthIndex(args.data[n - 1].date)

(***************************************************************************)
(* gvo_tools.denoised_sv_to_mf                                             *)
(*                                                                         *)
(* A dataframe is its list of column names and, for each data column, a    *)
(* function from the row labels 0..n-1 to values.                          *)
(***************************************************************************)

\* The missing rows a field column can start and end with.
MaxLead == 1

\* The numbers of rows between the leading and the trailing missing rows.
Spans == {3, 14, 26}

HasValid(col) == \E i \in DOMAIN col : ~IsNaN(col[i])

\* pd.Series.first_valid_index and last_valid_index: the label of the first
\* and last row that is not NaN, None when there is none.
FirstValidIndex(col) ==
    LET valid == {i \in DOMAIN col : ~IsNaN(col[i])}
    IN  IF valid = {} THEN None
        ELSE CHOOSE i \in valid : \A j \in valid : i <= j

LastValidIndex(col) ==
    LET valid == {i \in DOMAIN col : ~IsNaN(col[i])}
    IN  IF valid = {} THEN None
        ELSE CHOOSE i \in valid : \A j \in valid : i >= j

\* Index.sort_values on the data columns: "X_000" before "Y_000".
SortValues(columns) ==
    IF Len(columns) = 2 /\ columns[1] = "Y_000" /\ columns[2] = "X_000"
    THEN <<"X_000", "Y_000">>
    ELSE columns

\* The loop of lines 1065-1074 on one column: the first twelve rows from
\* first_valid take the raw field, every later row up to last_valid takes
\* the row twelve before it plus the secular variation of that row.
Integrate(mf, sv, first_valid, last_valid) ==
    LET out[i \in DOMAIN mf] ==
            IF last_valid < first_valid THEN NaN
            ELSE IF i >= first_valid /\ i < first_valid + 12 THEN mf[i]
            ELSE IF i >= first_valid + 12 /\ i <= last_valid
            THEN Add(out[i - 12], sv[i - 12])
            ELSE NaN
    IN  out

\* A variant that keeps the first year.
CutNothing(col, first_valid) == col

\* denoised_mf.iloc[first_valid:first_valid+12, 1:] = np.nan
CutFirstYear(col, first_valid) ==
    [i \in DOMAIN col |->
        IF i >= first_valid /\ i < first_valid + 12 THEN NaN ELSE col[i]]

\* The data column of denoised_sv paired with the k-th data column of
\* vo_mf, both lists of names sorted.
DenoisedSvToMf(vo_mf, denoised_sv, first_valid, last_valid) ==
    LET mf_names == SortValues(Tail(vo_mf.columns))
        sv_names == SortValues(Tail(denoised_sv.columns))
        Paired(name) == sv_names[CHOOSE k \in DOMAIN mf_names :
                                    mf_names[k] = name]
    IN  [columns |-> vo_mf.columns,
         date |-> vo_mf.date,
         data |-> [name \in DOMAIN vo_mf.data |->
                     CutFirstYear(Integrate(vo_mf.data[name],
                                            denoised_sv.data[Paired(name)],
                                            first_valid, last_valid),
                                  first_valid)]]

\* A raw field column of n rows: lead missing rows, then values, then trail
\* missing rows, row gap missing as well.
MfColumn(n, lead, trail, gap, slope) ==
    [i \in 0..(n - 1) |->
        IF i < lead \/ i >= n - trail \/ i = gap THEN NaN
        ELSE 50 + slope * i + (i % 12) * (i % 5)]

\* The annual difference of a field column, sv[j] = mf[j + 12] - mf[j], with
\* noise added at row spot.
AnnualDifference(mf, noise, spot) ==
    [j \in DOMAIN mf |->
        IF j + 12 \in DOMAIN mf
        THEN Add(Sub(mf[j + 12], mf[j]), IF j = spot THEN noise ELSE 0)
        ELSE NaN]

Frame(order, n, x, y) ==
    [columns |-> <<"date">> \o order,
     date |-> [i \in 0..(n - 1) |-> i],
     data |-> [name \in {"X_000", "Y_000"} |->
                 IF name = "X_000" THEN x ELSE y]]

ColumnOrders == {<<"X_000", "Y_000">>, <<"Y_000", "X_000">>}

InitSvToMf ==
    /\ pc = "denoised_sv_to_mf"
    /\ \E lead \in 0..MaxLead, trail \in 0..MaxLead, span \in Spans,
          slope \in {0, 2}, noise \in {0, 1},
          mf_order \in ColumnOrders, sv_order \in ColumnOrders :
       \E n \in {lead + span + trail} :
       \E gap \in {-1, lead + 1, lead + 13, n}, ylead \in {0, 2, n} :
       \E x \in {MfColumn(n, lead, trail, gap, slope)},
          y \in {MfColumn(n, ylead, 0, -1, 3)} :
          args = [vo_mf |-> Frame(mf_order, n, x, y),
                  denoised_sv |->
                      Frame(sv_order, n, AnnualDifference(x, noise, lead + 2),
                            AnnualDifference(y, 0, -1))]
    /\ heap = None
    /\ frame = None
    /\ ret = None

\* Lines 1058-1059: the first and the last valid label of the column after
\* the date column; int(None) raises TypeError.
denoised_sv_to_mf ==
    /\ pc = "denoised_sv_to_mf"
    /\ \E first_valid \in
            {FirstValidIndex(args.vo_mf.data[args.vo_mf.columns[2]])},
          last_valid \in
            {LastValidIndex(args.vo_mf.data[args.vo_mf.columns[2]])} :
          IF ~HasValid(args.vo_mf.data[args.vo_mf.columns[2]])
          THEN /\ ret' = Raise("TypeError")
               /\ UNCHANGED frame
          ELSE /\ frame' = [first_valid |-> first_valid,
                            last_valid |-> last_valid]
               /\ ret' = [value |-> DenoisedSvToMf(args.vo_mf,
                                                   args.denoised_sv,
                                                   first_valid, last_valid)]
    /\ pc' = "done"
    /\ UNCHANGED <<args, heap>>

NextSvToMf == denoised_sv_to_mf

SpecSvToMf == InitSvToMf /\ [][NextSvToMf]_vars

DataColumns == {"X_000", "Y_000"}

\* The secular variation handed over is the annual difference of the field
\* handed over: sv[j] = mf[j + 12] - mf[j] on every row j that has a row
\* twelve after it.
IsAnnualDifference(name) ==
    \A j \in DOMAIN args.vo_mf.data[name] :
        j + 12 \in DOMAIN args.vo_mf.data[name] =>
            args.denoised_sv.data[name][j]
              = Sub(args.vo_mf.data[name][j + 12], args.vo_mf.data[name][j])

\* The first year of the output is missing, and every later row up to
\* last_valid is the row twelve before it (the raw field within the first
\* year) plus the secular variation of that row.
StartsOneYearLater(name) ==
    LET mf == args.vo_mf.data[name]
        sv == args.denoised_sv.data[name]
        out == ret.value.data[name]
    IN  /\ \A i \in DOMAIN out :
              (i >= frame.first_valid /\ i < frame.first_valid + 12)
                  => IsNaN(out[i])
        /\ \A i \in (frame.first_valid + 12)..frame.last_valid :
              out[i] = Add(IF i - 12 < frame.first_valid + 12
                           THEN mf[i - 12] ELSE out[i - 12],
                           sv[i - 12])

\* Row i of the column and every row a whole number of years before it, back
\* to first_valid, has a value.
YearsBackValid(name, i) ==
    \A j \in DOMAIN args.vo_mf.data[name] :
        (j >= frame.first_valid /\ j <= i /\ (i - j) % 12 = 0)
            => ~IsNaN(args.vo_mf.data[name][j])

\* C22, as stated: the output starts one year after the raw field, and when
\* denoised_sv is the annual difference of vo_mf the output equals vo_mf on
\* every row from first_valid + 12 to last_valid.
C22_AnnualDifferenceRestoresField ==
    (pc = "done" /\ Returned(ret)) =>
        \A name \in DataColumns :
            /\ StartsOneYearLater(name)
            /\ IsAnnualDifference(name) =>
                  \A i \in (frame.first_valid + 12)..frame.last_valid :
                      ret.value.data[name][i] = args.vo_mf.data[name][i]

\* C22, amended: the output starts one year after the raw field, and when
\* denoised_sv is the annual difference of vo_mf a row from first_valid + 12
\* to last_valid equals vo_mf if the column has a value on that row and on
\* every row a whole number of years before it, and is missing otherwise.
C22_RestoresFieldWhereYearsBackValid ==
    (pc = "done" /\ Returned(ret)) =>
        \A name \in DataColumns :
            /\ StartsOneYearLater(name)
            /\ IsAnnualDifference(name) =>
                  \A i \in (frame.first_valid + 12)..frame.last_valid :
                      IF YearsBackValid(name, i)
                      THEN ret.value.data[name][i] = args.vo_mf.data[name][i]
                      ELSE IsNaN(ret.value.data[name][i])

C22_Witness ==
    /\ pc = "done"
    /\ Returned(ret)
    /\ frame.first_valid > 0
    /\ frame.last_valid >= frame.first_valid + 24
    /\ IsAnnualDifference("X_000")
    /\ \E i \in (frame.first_valid + 24)..frame.last_valid :
          ~IsNaN(ret.value.data["X_000"][i])
    /\ \E i \in (frame.first_valid + 24)..frame.last_valid :
          /\ ~IsNaN(args.vo_mf.data["X_000"][i])
          /\ IsNaN(ret.value.data["X_000"][i])

(***************************************************************************)
(* Further properties of denoise.eigenvalue_analysis                       *)
(***************************************************************************)

\* The product of the squared norms of the first n eigenvectors returned.
RECURSIVE NormProduct(_)
NormProduct(n) ==
    IF n = 0 THEN 1
    ELSE Dot(ret.value.eig_vectors[n], ret.value.eig_vectors[n])
           * NormProduct(n - 1)

\* scale times the sum over the first n directions k of
\* projected_residuals[t, k] * eigenvector_k[c], the eigenvectors taken at
\* unit length.
RECURSIVE RemovedPart(_, _, _, _)
RemovedPart(t, c, n, scale) ==
    IF n = 0 THEN 0
    ELSE LET u == ret.value.eig_vectors[n]
         IN  ret.value.projected_residuals[t][n].num * u[c]
               * (scale \div Dot(u, u))
             + RemovedPart(t, c, n - 1, scale)

\* C23: for 1 <= proxy_number <= number of columns, projected_residuals has
\* one row per residual row and one column per eigendirection, proxy[t] is
\* the sum of the first proxy_number projections of row t, every residual
\* that has a value is corrected by the sum of those projections times their
\* eigenvectors, and for proxy_number = 1 the loop of the general branch
\* gives the rows the first branch gives.
C23_ProxyAndCorrection ==
    (Finished /\ ValidProxyNumber) =>
        LET p == args.proxy_number
            projected == ret.value.projected_residuals
            corrected == ret.value.corrected_residuals.values
            scale == NormProduct(p)
        IN  /\ Len(projected) = Len(args.residuals)
            /\ Len(corrected) = Len(args.residuals)
            /\ \A t \in Rows :
                  /\ Len(projected[t]) = Len(Components)
                  /\ Len(ret.value.proxy[t]) = p
                  /\ \A k \in 1..p : ret.value.proxy[t][k] = projected[t][k]
                  /\ \A c \in Cols :
                        IF IsNaN(args.residuals[t][c])
                        THEN IsMissing(corrected[t][c])
                        ELSE /\ ~IsMissing(corrected[t][c])
                             /\ corrected[t][c].num * scale
                                  = corrected[t][c].den
                                      * (scale * args.residuals[t][c]
                                           - RemovedPart(t, c, p, scale))
                  /\ p = 1 =>
                        \E den \in {Denominator(ret.value.eig_vectors)} :
                            corrected[t]
                              = CorrectLoop(DataRow(args.residuals[t], den),
                                            args.residuals[t], projected[t],
                                            ret.value.eig_vectors, 1, 1, den)

\* A returned call that removed two directions from a row with a missing
\* residual and left a value that is not 0, and one that removed one.
C23_Witness ==
    /\ Finished
    /\ args.proxy_number = 2
    /\ \E t \in Rows :
          /\ \E c \in Cols : IsNaN(args.residuals[t][c])
          /\ \E c \in Cols :
                /\ ~IsMissing(ret.value.corrected_residuals.values[t][c])
                /\ ret.value.corrected_residuals.values[t][c].num # 0
                /\ ret.value.corrected_residuals.values[t][c].num
                     # args.residuals[t][c]
                         * ret.value.corrected_residuals.values[t][c].den

\* The imputed residual of row t and kept column k, as the model of the
\* imputer finds it.
ImputedResidual(t, k) == frame.imputed_residuals[t][k]

\* scale times the sum over the first n directions j of
\* projected_residuals[t, j] * eigenvector_j[k], eigenvector_j row j of the
\* components matrix returned.
RECURSIVE RemovedPartImpute(_, _, _, _)
RemovedPartImpute(t, k, n, scale) ==
    IF n = 0 THEN 0
    ELSE LET u == ret.value.eig_vectors[n]
         IN  ret.value.projected_residuals[t][n].num * u[k]
               * (scale \div Dot(u, u))
             + RemovedPartImpute(t, k, n - 1, scale)

\* C24, as stated: eigenvalue_analysis_impute replaces every missing residual
\* by the mean of its column and returns, for each row, the imputed
\* residuals less the projections on the first proxy_number eigenvectors
\* times those eigenvectors.
C24_ImputedThenCorrected ==
    (pc = "done" /\ ValidProxyNumber /\ Len(args.residuals) >= 2
       /\ KeptColumns(args.residuals) # <<>>) =>
        /\ \A t \in Rows, k \in DOMAIN KeptColumns(args.residuals) :
              LET c == KeptColumns(args.residuals)[k]
              IN  IF IsNaN(args.residuals[t][c])
                  THEN RatEq(ImputedResidual(t, k),
                             ColumnMean(args.residuals, c))
                  ELSE RatEq(ImputedResidual(t, k),
                             [num |-> args.residuals[t][c], den |-> 1])
        /\ Returned(ret)
        /\ \E scale \in {NormProduct(args.proxy_number)} :
              \A t \in Rows, k \in DOMAIN KeptColumns(args.residuals) :
                  LET v == ret.value.corrected_residuals.values[t][k]
                      x == ImputedResidual(t, k)
                  IN  v.num * scale * x.den
                        = v.den * (scale * x.num
                                     - x.den * RemovedPartImpute(
                                                 t, k, args.proxy_number,
                                                 scale))

\* The imputation itself is as stated: a call on residuals with a missing
\* entry whose column has values.
C24_ImputationReached ==
    /\ pc = "done"
    /\ ValidProxyNumber
    /\ \E t \in Rows, c \in Cols :
          /\ IsNaN(args.residuals[t][c])
          /\ Count(args.residuals, c) >= 2
          /\ ColumnMean(args.residuals, c).num # 0

\* The residuals handed over with entry (t, i) replaced by v.
Changed(X, t, i, v) == [X EXCEPT ![t][i] = v]

\* Cell (i, j) of the covariance matrix of X and that of Y are the same
\* number.
SameCell(X, Y, i, j) ==
    CellNum(X, i, j) * CellDen(Y, i, j) = CellNum(Y, i, j) * CellDen(X, i, j)

\* C25, as stated: cell (i, j) of the covariance matrix the call works out
\* depends on the dates at which both columns have a value only: another
\* value for column i on a date at which column j is missing leaves the cell
\* as it is.
C25_CellFromCommonDatesOnly ==
    (pc = "correct") =>
        \A t \in Rows, i \in Cols, j \in Cols :
            (i # j /\ ~IsNaN(args.residuals[t][i])
               /\ IsNaN(args.residuals[t][j])) =>
                \A v \in {args.residuals[t][i] + 3, args.residuals[t][i] - 1} :
                    /\ frame.covariance_matrix = MaCov(args.residuals)
                    /\ SameCell(args.residuals,
                                Changed(args.residuals, t, i, v), i, j)

(***************************************************************************)
(* Further properties of denoise.detect_outliers                           *)
(***************************************************************************)

\* Samples a..b of the series handed over are a gap: all missing, with no
\* missing sample next to them.
IsGap(a, b) ==
    /\ a <= b
    /\ \A i \in a..b : IsNaN(args.signal[i])
    /\ a > 1 => ~IsNaN(args.signal[a - 1])
    /\ b < Len(args.signal) => ~IsNaN(args.signal[b + 1])

MaxJumps == 2

JumpYears == {2000, 2001, 2002}

\* The sizes of a documented jump, as (x_jump, y_jump, z_jump).
JumpSizes == {<<0, 0, 0>>, <<0, 5, 0>>, <<3, 0, -2>>, <<3, 4, 5>>}

\* str.upper on the observatory names.
Upper(name) == IF name = "ngk" THEN "NGK"
               ELSE IF name = "esk" THEN "ESK"
               ELSE name

\* One date is before another.
DateLt(a, b) ==
    \/ a.y < b.y
    \/ a.y = b.y /\ a.m < b.m
    \/ a.y = b.y /\ a.m = b.m /\ a.d < b.d

\* pd.to_datetime(dict(year=jump_year, month=1, day=1))
JumpDate(year) == [y |-> year, m |-> 1, d |-> 1]

\* The field table: two samples a year, on January 1st and June 15th, one
\* value of Z missing.
FieldData ==
    [k \in 1..(2 * Cardinality(JumpYears)) |->
        [date |-> [y |-> 2000 + ((k - 1) \div 2),
                   m |-> IF k % 2 = 1 THEN 1 ELSE 6,
                   d |-> IF k % 2 = 1 THEN 1 ELSE 15],
         X |-> 100 + k, Y |-> 200 - k,
         Z |-> IF k = 2 THEN NaN ELSE 300 + k * k]]

JumpRecords ==
    {[observatory |-> o, jump_year |-> JumpDate(year),
      x_jump |-> size[1], y_jump |-> size[2], z_jump |-> size[3]] :
        o \in {"NGK", "ESK"}, year \in JumpYears, size \in JumpSizes}

\* baseline_data[baseline_data['observatory'] == str.upper(observatory)]: the
\* index labels of the rows of the observatory, in order.
RECURSIVE SelectJumps(_, _, _)
SelectJumps(baseline_data, observatory, k) ==
    IF k > Len(baseline_data) THEN <<>>
    ELSE (IF baseline_data[k].observatory = Upper(observatory)
          THEN <<k>> ELSE <<>>)
         \o SelectJumps(baseline_data, observatory, k + 1)

\* 0 & b on integers.
BitAndZero(b) == 0

\* x_jump == 0 & y_jump == 0 & z_jump == 0: & binds tighter than ==, so the
\* chain compared is x_jump == (0 & y_jump) == (0 & z_jump) == 0.
IsZeroJump(jump) ==
    /\ jump.x_jump = BitAndZero(jump.y_jump)
    /\ BitAndZero(jump.y_jump) = BitAndZero(jump.z_jump)
    /\ BitAndZero(jump.z_jump) = 0

\* Lines 301-312: the sizes are taken off the rows dated before the jump.
SubtractJump(field_data, jump) ==
    [k \in 1..Len(field_data) |->
        IF DateLt(field_data[k].date, jump.jump_year)
        THEN [date |-> field_data[k].date,
              X |-> Sub(field_data[k].X, jump.x_jump),
              Y |-> Sub(field_data[k].Y, jump.y_jump),
              Z |-> Sub(field_data[k].Z, jump.z_jump)]
        ELSE field_data[k]]

InitBaseline ==
    /\ pc = "correct_baseline_change"
    /\ \E n \in 0..MaxJumps :
       \E baseline_data \in [1..n -> JumpRecords],
          observatory \in {"ngk", "NGK"},
          print_data \in {"True", "False"},
          dtype \in {"int64", "float64"} :
          args = [observatory |-> observatory, field_data |-> FieldData,
                  baseline_data |-> baseline_data, print_data |-> print_data,
                  jump_dtype |-> dtype]
    /\ heap = [field_data |-> FieldData, stdout |-> <<>>]
    /\ frame = None
    /\ ret = None

\* Lines 288-292.
correct_baseline_select ==
    /\ pc = "correct_baseline_change"
    /\ \E obs_jumps \in {SelectJumps(args.baseline_data, args.observatory, 1)} :
          /\ frame' = [obs_jumps |-> obs_jumps, i |-> 1]
          /\ heap' = IF IsTrue(args.print_data)
                     THEN [heap EXCEPT !.stdout = Append(@, obs_jumps)]
                     ELSE heap
    /\ pc' = "for_jump"
    /\ UNCHANGED <<args, ret>>

\* Lines 294-312, one turn of the loop.  0 & y_jump raises TypeError when the
\* jump columns hold floats.
correct_baseline_jump ==
    /\ pc = "for_jump"
    /\ frame.i <= Len(frame.obs_jumps)
    /\ LET jump == args.baseline_data[frame.obs_jumps[frame.i]]
       IN  IF args.jump_dtype = "float64"
           THEN /\ ret' = Raise("TypeError")
                /\ pc' = "done"
                /\ UNCHANGED <<heap, frame>>
           ELSE /\ IF IsZeroJump(jump)
                   THEN heap' = [heap EXCEPT
                                   !.stdout = Append(@, jump.jump_year)]
                   ELSE heap' = [heap EXCEPT
                                   !.field_data = SubtractJump(@, jump)]
                /\ frame' = [frame EXCEPT !.i = @ + 1]
                /\ pc' = "for_jump"
                /\ UNCHANGED ret
    /\ UNCHANGED args

\* The end of the loop: the function returns None.
correct_baseline_return ==
    /\ pc = "for_jump"
    /\ frame.i > Len(frame.obs_jumps)
    /\ ret' = [value |-> None]
    /\ pc' = "done"
    /\ UNCHANGED <<args, heap, frame>>

NextBaseline ==
    \/ correct_baseline_select
    \/ correct_baseline_jump
    \/ correct_baseline_return

SpecBaseline == InitBaseline /\ [][NextBaseline]_vars

\* The sum of one size over the records of the observatory asked for that
\* are not zero in all three sizes and are dated after d.
RECURSIVE JumpsAfter(_, _, _)
JumpsAfter(d, size, k) ==
    IF k = 0 THEN 0
    ELSE LET jump == args.baseline_data[k]
         IN  (IF /\ jump.observatory = Upper(args.observatory)
                 /\ ~(jump.x_jump = 0 /\ jump.y_jump = 0 /\ jump.z_jump = 0)
                 /\ DateLt(d, jump.jump_year)
              THEN jump[size] ELSE 0)
             + JumpsAfter(d, size, k - 1)

\* C27, as stated: a jump is skipped only when its three sizes are zero, and
\* after the call every field sample has been reduced by the sum of the
\* jumps of the observatory dated after it.
C27_ReducedByLaterJumps ==
    (pc = "done" /\ Returned(ret)) =>
        \A k \in 1..Len(args.field_data) :
            LET before == args.field_data[k]
                after == heap.field_data[k]
                n == Len(args.baseline_data)
            IN  /\ after.date = before.date
                /\ after.X = Sub(before.X, JumpsAfter(before.date, "x_jump", n))
                /\ after.Y = Sub(before.Y, JumpsAfter(before.date, "y_jump", n))
                /\ after.Z = Sub(before.Z, JumpsAfter(before.date, "z_jump", n))

\* The eigenvectors returned, eigenvector k multiplied by sign[k].
Resigned(sign) ==
    [k \in Cols |-> [c \in Cols |-> sign[k] * ret.value.eig_vectors[k][c]]]

\* C28: had the solver given any of the eigenvectors the other sign, the
\* corrected residuals and denoised_sv would be those returned, while each
\* term of the proxy on an eigenvector of the other sign would be the
\* negative of the term returned.
C28_SignsOfEigenvectors ==
    (Finished /\ ValidProxyNumber) =>
        \A sign \in Signs :
            \E vecs \in {Resigned(sign)} :
            \E projected \in {Project(args.residuals, vecs)} :
            \E corrected \in {CorrectedResiduals(args.residuals, projected,
                                  vecs, args.proxy_number,
                                  Denominator(vecs))} :
                /\ corrected = ret.value.corrected_residuals.values
                /\ DenoisedValues(corrected, args.model_data.values)
                     = ret.value.denoised_sv.values
                /\ \A t \in Rows, k \in 1..args.proxy_number :
                      LET term == Proxy(projected, args.proxy_number)[t][k]
                      IN  IF IsMissing(ret.value.proxy[t][k])
                          THEN IsMissing(term)
                          ELSE /\ term.num = sign[k] * ret.value.proxy[t][k].num
                               /\ term.rad = ret.value.proxy[t][k].rad

\* A returned call with two directions removed and a date whose projections
\* on both are not zero: the other sign for one of the two eigenvectors
\* gives a proxy that is neither the one returned nor its negative.
C28_Witness ==
    /\ Finished
    /\ args.proxy_number = 2
    /\ \E t \in Rows :
          /\ ~IsMissing(ret.value.proxy[t][1])
          /\ ret.value.proxy[t][1].num # 0
          /\ ret.value.proxy[t][2].num # 0
          /\ \E c \in Cols :
                /\ ~IsMissing(ret.value.corrected_residuals.values[t][c])
                /\ ret.value.corrected_residuals.values[t][c].num # 0

\* C29: where the rolling MAD is zero, a sample that differs from the
\* rolling median is removed whatever the threshold, and one that equals it
\* is kept; a series shorter than window_length comes back as handed over.
C29_ZeroDeviation ==
    pc = "done" =>
        /\ \A i \in 1..Len(args.signal) :
              (frame.med_abs_deviation[i] = 0 /\ ~IsNaN(frame.diff[i])) =>
                  IF frame.diff[i] # 0 THEN IsNaN(ret.value[i])
                  ELSE ret.value[i] = args.signal[i]
        /\ Len(args.signal) < args.window_length =>
              /\ ret.value = args.signal
              /\ \A i \in 1..Len(args.signal) : IsNaN(frame.running_median[i])

\* A call with the large threshold that removes a sample over a MAD of zero
\* and keeps another one over a MAD of zero.
C29_Witness ==
    /\ pc = "done"
    /\ args.threshold = LargeThreshold
    /\ \E i, j \in 1..Len(args.signal) :
          /\ frame.med_abs_deviation[i] = 0
          /\ ~IsNaN(args.signal[i])
          /\ IsNaN(ret.value[i])
          /\ frame.med_abs_deviation[j] = 0
          /\ ~IsNaN(args.signal[j])
          /\ ret.value[j] = args.signal[j]

\* The sum over the columns c that have a value on date t of
\* residuals[t][c] * u[c].
DotPresent(t, u) ==
    SeqSum([c \in Cols |->
              IF IsNaN(args.residuals[t][c]) THEN 0
              ELSE args.residuals[t][c] * u[c]])

\* C30: on a date with a residual that is not missing every projection is a
\* number worked out from the columns that have a value, a missing residual
\* counting for nothing, and so is every term of the proxy; the residuals of
\* that date that have a value are corrected with those projections; a
\* projection is missing only on a date without any residual.
C30_MissingCountsForNothing ==
    (Finished /\ ValidProxyNumber) =>
        \E scale \in {NormProduct(args.proxy_number)} :
        \A t \in Rows :
            IF \A c \in Cols : IsNaN(args.residuals[t][c])
            THEN \A k \in Cols : IsMissing(ret.value.projected_residuals[t][k])
            ELSE /\ \A k \in Cols :
                       LET u == ret.value.eig_vectors[k]
                           projection == ret.value.projected_residuals[t][k]
                       IN  /\ ~IsMissing(projection)
                           /\ projection.num = DotPresent(t, u)
                           /\ projection.rad = Dot(u, u)
                 /\ \A k \in 1..args.proxy_number :
                       ~IsMissing(ret.value.proxy[t][k])
                 /\ \A c \in Cols :
                       ~IsNaN(args.residuals[t][c]) =>
                           LET v == ret.value.corrected_residuals.values[t][c]
                           IN  /\ ~IsMissing(v)
                               /\ v.num * scale
                                    = v.den * (scale * args.residuals[t][c]
                                                 - RemovedPart(t, c,
                                                       args.proxy_number,
                                                       scale))

\* A returned call with a date that has one residual missing and a
\* projection that is not zero, and a date that has none.
C30_Witness ==
    /\ Finished
    /\ ValidProxyNumber
    /\ \E t \in Rows :
          /\ \E c \in Cols : IsNaN(args.residuals[t][c])
          /\ \E c \in Cols : ~IsNaN(args.residuals[t][c])
          /\ ~IsMissing(ret.value.projected_residuals[t][1])
          /\ ret.value.projected_residuals[t][1].num # 0
    /\ \E t \in Rows :
          /\ \A c \in Cols : IsNaN(args.residuals[t][c])
          /\ IsMissing(ret.value.projected_residuals[t][1])

====
